---- MODULE Spec2Model ----
(***************************************************************************)
(* Model of the JSON Schema resource registry builder of                   *)
(* crates/jsonschema-referencing/src/registry.rs.                          *)
(*                                                                         *)
(* Strings are sequences of tokens: every character the code looks at     *)
(* ("#", "/", ":", "//") is a token of its own, the runs of characters     *)
(* between them are single tokens.  A URI is, as in the code               *)
(* (Uri<String>), a validated string, so it is a token sequence too and    *)
(* two URIs are equal when their strings are.                              *)
(*                                                                         *)
(* A JSON value is a tagged record; a JSON document that was pinned        *)
(* (Arc::pin) is identified by its allocation, and a resource handle       *)
(* (InnerResourcePtr) by the allocation and the path of the node in it.    *)
(***************************************************************************)
EXTENDS Integers, Sequences, FiniteSets, TLC

\* ------------------------------------------------------------------ bounds

\* Input pairs handed to the builder over the life of one registry
\* (the first build and its extensions together).
MaxPairs == 3

\* Queries are made of registries built from at most this many pairs.
MaxQueried == 2

\* Pairs of a build from the wider family of inputs: URIs that carry a
\* fragment, documents with local references.
MaxWidePairs == 2

\* Pairs of a build made through RegistryOptions, with a retriever and a
\* default draft of the caller's choice.
MaxOptionPairs == 2

\* Instance paths given on one command line.
MaxInstances == 2

\* ----------------------------------------------------------------- strings

StartsWith(s, p) ==
    Len(s) >= Len(p) /\ SubSeq(s, 1, Len(p)) = p

\* Position of the first token `tok` of s, 0 when there is none.
IndexOf(s, tok) ==
    IF \E i \in 1..Len(s) : s[i] = tok
    THEN CHOOSE i \in 1..Len(s) : s[i] = tok /\ \A j \in 1..(i - 1) : s[j] # tok
    ELSE 0

RECURSIVE TrimEndHash(_)
TrimEndHash(s) ==
    IF Len(s) > 0 /\ s[Len(s)] = "#" THEN TrimEndHash(SubSeq(s, 1, Len(s) - 1)) ELSE s

RECURSIVE TrimStartHash(_)
TrimStartHash(s) ==
    IF Len(s) > 0 /\ s[1] = "#" THEN TrimStartHash(Tail(s)) ELSE s

\* str::split_once('#'): the text before the first "#" and the text after it.
SplitOnceHash(s) ==
    IF IndexOf(s, "#") = 0 THEN [found |-> FALSE, path |-> s, fragment |-> <<>>]
    ELSE [found |-> TRUE,
          path |-> SubSeq(s, 1, IndexOf(s, "#") - 1),
          fragment |-> SubSeq(s, IndexOf(s, "#") + 1, Len(s))]

\* -------------------------------------------------------------------- URIs

Schemes == {"http", "https", "file", "urn"}

Ok(v) == [ok |-> TRUE, val |-> v]
Err(kind, what) == [ok |-> FALSE, kind |-> kind, what |-> what]

\* A panic: the call returns no value.
Panicked(what) == [ok |-> FALSE, kind |-> "panic", what |-> what]

HasScheme(s) == Len(s) >= 2 /\ s[1] \in Schemes /\ s[2] = ":"

\* A string that is no URI reference: it opens with ":" (an empty scheme), or
\* it holds a "#" inside its fragment.
WellFormed(s) ==
    /\ Len(s) = 0 \/ s[1] # ":"
    /\ Cardinality({i \in 1..Len(s) : s[i] = "#"}) <= 1

\* uri::from_str: the string, validated.  (The strings the model hands to it
\* all carry a scheme.)
FromStr(s) == IF WellFormed(s) THEN Ok(s) ELSE Err("InvalidUri", s)

Scheme(u) == u[1]
HasFragment(u) == IndexOf(u, "#") > 0
Fragment(u) == SplitOnceHash(u).fragment
SetFragmentNone(u) == SplitOnceHash(u).path
WithFragment(u, f) == SetFragmentNone(u) \o <<"#">> \o f

\* The length of scheme, ":" and authority of a URI without fragment.
RootLen(u) ==
    IF Len(u) >= 3 /\ u[3] = "//"
    THEN IF Len(u) >= 4 /\ u[4] # "/" THEN 4 ELSE 3
    ELSE 2

\* The text up to and including the last "/" (RFC 3986, 5.2.3).
RECURSIVE DropLastSegment(_)
DropLastSegment(u) ==
    IF Len(u) = 0 \/ u[Len(u)] = "/" THEN u
    ELSE DropLastSegment(SubSeq(u, 1, Len(u) - 1))

\* The base a relative path is merged with (RFC 3986, 5.2.3).
MergeBase(base) ==
    IF Len(base) = RootLen(base) THEN base \o <<"/">> ELSE DropLastSegment(base)

\* UriCache::resolve_against: reference resolution (RFC 3986, 5.2.2).  The
\* base must have no fragment ("Returns an error if base has not schema or
\* there is a fragment"); a base without authority, such as a urn, resolves
\* absolute references only.
ResolveAgainst(base, ref) ==
    IF ~WellFormed(ref) THEN Err("InvalidUri", ref)
    ELSE IF HasFragment(base) THEN Err("InvalidUri", base)
    ELSE IF HasScheme(ref) THEN Ok(ref)
    ELSE IF Len(base) < 3 \/ base[3] # "//" THEN Err("InvalidUri", ref)
    ELSE IF StartsWith(ref, <<"//">>) THEN Ok(<<base[1], ":">> \o ref)
    ELSE IF Len(ref) = 0 \/ ref[1] = "#" THEN Ok(base \o ref)
    ELSE IF ref[1] = "/" THEN Ok(SubSeq(base, 1, RootLen(base)) \o ref)
    ELSE Ok(MergeBase(base) \o ref)

\* uri::EncodedString::new: the fragment holds only characters a fragment may hold.
IsEncoded(f) == \A i \in 1..Len(f) : f[i] \notin {"#", " "}

\* uri::encode_to
EncodeTo(f) ==
    [i \in 1..Len(f) |-> IF f[i] = "#" THEN "%23" ELSE IF f[i] = " " THEN "%20" ELSE f[i]]

\* -------------------------------------------------------------- JSON values

Lit == [t |-> "lit"]
Str(s) == [t |-> "str", s |-> s]
Obj(m) == [t |-> "obj", m |-> m]
Arr(a) == [t |-> "arr", a |-> a]

None == [some |-> FALSE]
Some(v) == [some |-> TRUE, val |-> v]

IsObject(node) == node.t = "obj"
HasKey(node, key) == IsObject(node) /\ key \in DOMAIN node.m

\* object.get(key).and_then(Value::as_str)
GetStr(node, key) ==
    IF HasKey(node, key) /\ node.m[key].t = "str" THEN Some(node.m[key].s) ELSE None

\* The member names of the documents below, in the order a serde_json map
\* iterates (sorted).
KeyOrder ==
    <<"$anchor", "$defs", "$id", "$ref", "$schema", "a", "b", "bar", "c", "definitions", "name",
      "p", "properties", "q", "type", "x">>

\* parse_index
ParseIndex(token) ==
    CASE token = "0" -> Some(1)
      [] token = "1" -> Some(2)
      [] OTHER -> None

\* One step of pointer's try_fold: the member or element `token` names.
Child(target, token) ==
    CASE target.t = "obj" ->
            IF token \in DOMAIN target.m THEN Some(target.m[token]) ELSE None
      [] target.t = "arr" ->
            LET ix == ParseIndex(token) IN
            IF ix.some /\ ix.val <= Len(target.a) THEN Some(target.a[ix.val]) ELSE None
      [] OTHER -> None

\* pointer.split('/').skip(1) for a pointer that starts with "/": the text
\* between the "/" tokens ("" where two of them meet or the pointer ends in one).
RECURSIVE Segments(_)
Segments(p) ==
    IF Len(p) = 0 THEN <<>>
    ELSE IF Len(p) = 1 \/ p[2] = "/" THEN <<"">> \o Segments(Tail(p))
    ELSE <<p[2]>> \o Segments(SubSeq(p, 3, Len(p)))

\* The node a sequence of member names leads to from `document`.
RECURSIVE Walk(_, _)
Walk(document, path) ==
    IF Len(path) = 0 THEN Some(document)
    ELSE LET c == Child(document, Head(path)) IN
         IF c.some THEN Walk(c.val, Tail(path)) ELSE None

\* pointer: the path of the node the JSON Pointer designates in `document`.
Pointer(document, p) ==
    IF Len(p) = 0 THEN Some(<<>>)
    ELSE IF p[1] # "/" THEN None
    ELSE IF Walk(document, Segments(p)).some THEN Some(Segments(p)) ELSE None

\* ---------------------------------------------------------------- catalogue

Http(name) == <<"http", ":", "//", "ex", "/", name>>
S1 == Http("s1")
S2 == Http("s2")
S3 == Http("s3")
UrnS == <<"urn", ":", "example", ":", "s">>
UrnT == <<"urn", ":", "example", ":", "t">>
BadUri == <<":", "/", "example.com">>
FileSchema == <<"file", ":", "//", "/", "a", "/", "b", "/", "schema.json">>
FileSub == <<"file", ":", "//", "/", "a", "/", "b", "/", "folderB", "/", "sub.json">>
FuzzUri == <<"http", ":", "//", "#", "/">>
OuterUri == <<"http", ":", "//", "ex", "/", "d", "/", "o">>

HttpsDraftPrefix == <<"https", ":", "//", "json-schema.org", "/", "draft", "/">>
HttpDraftPrefix == <<"http", ":", "//", "json-schema.org", "/", "draft-">>
Meta202012 == HttpsDraftPrefix \o <<"2020-12", "/", "schema">>
Meta07 == HttpDraftPrefix \o <<"07", "/", "schema">>

Drafts == {"Draft202012", "Draft7"}

Map1(k, v) == [x \in {k} |-> v]
Map2(k1, v1, k2, v2) == [x \in {k1, k2} |-> IF x = k1 THEN v1 ELSE v2]
Map3(k1, v1, k2, v2, k3, v3) ==
    [x \in {k1, k2, k3} |-> IF x = k1 THEN v1 ELSE IF x = k2 THEN v2 ELSE v3]
Map4(k1, v1, k2, v2, k3, v3, k4, v4) == (k4 :> v4) @@ Map3(k1, v1, k2, v2, k3, v3)

\* The JSON documents of the model, by name.
BodyOf(name) ==
    CASE name = "ext" -> Obj(Map1("$ref", Str(S2)))
      [] name = "plain" -> Obj(Map1("type", Lit))
      [] name = "props" ->
            Obj(Map2("properties",
                     Obj(Map1("bar", Obj(Map2("$id", Str(UrnT), "$ref", Str(Meta202012))))),
                     "type", Lit))
      [] name = "meta" -> Obj(Map2("$id", Str(Meta07), "$ref", Str(Meta202012)))
      [] name = "alias" ->
            Obj(Map3("$id", Str(S2), "$anchor", Str(<<"n", "/", "m">>), "$schema", Str(Meta202012)))
      [] name = "r2" ->
            Obj(Map2("$anchor", Str(<<"k">>),
                     "properties",
                     Obj(Map2("a", Obj(Map1("$ref", Str(S3 \o <<"#", "/", "bar">>))),
                              "b", Obj(Map1("$ref", Str(S3)))))))
      [] name = "r3" ->
            Obj(Map4("$id", Str(<<"s2">>), "$anchor", Str(<<"k">>),
                     "bar", Obj(Map1("$anchor", Str(<<"j">>))), "$ref", Str(S1)))
      [] name = "meta202012" ->
            Obj(Map2("$id", Str(Meta202012), "$anchor", Str(<<"meta">>)))
      [] name = "meta07" -> Obj(Map1("$id", Str(Meta07 \o <<"#">>)))
      [] name = "rel" -> Obj(Map1("$ref", Str(<<"s3", "#", "/", "bar">>)))
      [] name = "internal" ->
            Obj(Map2("$defs", Obj(Map1("x", Obj(Map1("type", Lit)))),
                     "$ref", Str(<<"#", "/", "$defs", "/", "x">>)))
      [] name = "root" ->
            Obj(Map2("$ref", Str(<<"#", "/", "x">>), "x", Obj(Map1("$ref", Str(S1)))))
      [] name = "nested" ->
            Obj(Map2("properties",
                     Obj(Map1("a", Obj(Map2("$ref", Str(<<"#", "/", "x">>),
                                            "x", Obj(Map1("$ref", Str(S3))))))),
                     "x", Obj(Map1("$ref", Str(S1)))))
      [] name = "cycle" ->
            Obj(Map3("$ref", Str(<<"#", "/", "a">>),
                     "a", Obj(Map2("$ref", Str(<<"#", "/", "b">>),
                                   "b", Obj(Map1("$ref", Str(<<"#", "/", "a">>))))),
                     "b", Obj(Map1("$ref", Str(<<"#", "/", "a">>)))))
      [] name = "outer" ->
            Obj(Map4("$id", Str(<<"/", "o2">>), "$anchor", Str(<<"top">>), "$ref", Str(<<"s1">>),
                     "properties",
                     Obj(Map2("p", Obj(Map2("$id", Str(<<"inner">>), "$ref", Str(<<"s1">>))),
                              "q", Obj(Map1("$anchor", Str(<<"qa">>)))))))
      [] name = "s6" ->
            Obj(Map1("$ref", Str(<<"folderB", "/", "sub.json", "#", "/", "definitions", "/", "name">>)))
      [] name = "sub" -> Obj(Map1("definitions", Obj(Map1("name", Obj(Map1("type", Lit))))))
      [] name = "fuzz" -> Obj(Map1("$schema", Str(<<"$", "#", "#">>)))
      [] name = "fuzzid" ->
            Obj(Map2("$id", Str(<<"$", "#", "#", "x">>), "$ref", Str(<<"$", "#", "#">>)))
      [] name = "d7" ->
            Obj(Map2("$schema", Str(Meta07 \o <<"#">>),
                     "definitions", Obj(Map1("name", Obj(Map1("type", Lit))))))
      [] name = "unknown" -> Obj(Map1("$schema", Str(Http("unknown"))))
      [] name = "tod7" -> Obj(Map1("$ref", Str(<<"d7", "#", "/", "definitions", "/", "name">>)))
      [] name = "tounknown" -> Obj(Map1("$ref", Str(<<"u">>)))
      [] name = "misses" ->
            Obj(Map1("properties",
                     Obj(Map3("a", Obj(Map1("$ref", Str(<<"m1", "#", "/", "definitions", "/", "nope">>))),
                              "b", Obj(Map1("$ref", Str(<<"m2", "#", "/", "$schema", "/", "x">>))),
                              "c", Obj(Map1("$ref", Str(<<"m3", "#", "name">>)))))))
      [] name = "both" ->
            Obj(Map2("$ref", Str(<<"folderB", "/", "sub.json">>), "$schema", Str(Meta07)))
      [] name = "two" -> Obj(Map2("$ref", Str(<<"$", "#", "#">>), "$schema", Str(<<"sub.json">>)))
      [] name = "three" ->
            Obj(Map3("$ref", Str(<<"sub.json">>), "$schema", Str(<<"$", "#", "#">>), "type", Lit))

\* The (uri, resource) pairs a caller may hand to the builder.
InputPairs ==
    { [uri |-> S1, body |-> "ext", draft |-> "Draft202012"],
      [uri |-> S1 \o <<"#">>, body |-> "props", draft |-> "Draft202012"],
      [uri |-> BadUri, body |-> "plain", draft |-> "Draft202012"],
      [uri |-> UrnS, body |-> "ext", draft |-> "Draft202012"],
      [uri |-> Http("a"), body |-> "alias", draft |-> "Draft202012"],
      [uri |-> Http("m"), body |-> "meta", draft |-> "Draft202012"],
      [uri |-> Meta202012, body |-> "ext", draft |-> "Draft202012"] }

\* tests::TestRetriever::schemas: the documents a test retriever serves; "test"
\* serves a cycle s1 -> s2 -> s3 -> s1, "partial" lacks s3.
RemoteResources(retriever) ==
    IF retriever = "files"
    THEN (FileSub :> "sub") @@ (Http("d7") :> "d7") @@ (Http("u") :> "unknown")
         @@ [u \in {Http("m1"), Http("m2"), Http("m3")} |-> "d7"]
    ELSE IF retriever = "test"
    THEN [u \in {S1, S2, S3} |-> IF u = S1 THEN "ext" ELSE IF u = S2 THEN "r2" ELSE "r3"]
    ELSE [u \in {S1, S2} |-> IF u = S1 THEN "ext" ELSE "r2"]

Retrievers == {"default", "test", "partial"}

\* Retrieve::retrieve of DefaultRetriever and of tests::TestRetriever
Retrieve(retriever, uri) ==
    IF retriever = "default"
    THEN Err("Retrieve", "Default retriever does not fetch resources")
    ELSE IF uri \in DOMAIN RemoteResources(retriever)
         THEN Ok(RemoteResources(retriever)[uri])
         ELSE Err("Retrieve", "Failed to find")

\* ------------------------------------------------------ draft introspection

\* Draft::detect: the draft the node's "$schema" names, `default` without one.
Detect(default, node) ==
    LET sch == GetStr(node, "$schema") IN
    IF ~sch.some THEN Ok(default)
    ELSE IF TrimEndHash(sch.val) = Meta202012 THEN Ok("Draft202012")
    ELSE IF TrimEndHash(sch.val) = Meta07 THEN Ok("Draft7")
    ELSE Err("UnknownSpecification", sch.val)

\* InnerResourcePtr::id
IdOf(node, draft) ==
    IF GetStr(node, "$id").some THEN Some(TrimEndHash(GetStr(node, "$id").val)) ELSE None

\* Keywords whose value is a schema, a map of schemas, an array of schemas.
InPlaceKeywords == {"additionalProperties", "items", "not"}
InMapKeywords == {"$defs", "definitions", "properties"}
InArrayKeywords == {"allOf", "anyOf", "oneOf"}

Present(m) == SelectSeq(KeyOrder, LAMBDA k : k \in DOMAIN m)

RECURSIVE Flatten(_)
Flatten(ss) == IF Len(ss) = 0 THEN <<>> ELSE Head(ss) \o Flatten(Tail(ss))

IndexToken(i) == IF i = 1 THEN "0" ELSE "1"

\* Draft::subresources_of: the paths, from the node, of its subresources.
SubresourcesOf(node, draft) ==
    IF ~IsObject(node) THEN <<>>
    ELSE LET keys == Present(node.m)
             under(k) ==
                 LET v == node.m[k] IN
                 IF k \in InPlaceKeywords THEN << <<k>> >>
                 ELSE IF k \in InMapKeywords /\ v.t = "obj"
                      THEN LET ms == Present(v.m) IN [i \in 1..Len(ms) |-> <<k, ms[i]>>]
                 ELSE IF k \in InArrayKeywords /\ v.t = "arr"
                      THEN [i \in 1..Len(v.a) |-> <<k, IndexToken(i)>>]
                 ELSE <<>>
         IN  Flatten([i \in 1..Len(keys) |-> under(keys[i])])

\* ------------------------------------------------------------------ handles

\* Arc::pin(contents): the allocation number n tells two copies of a body apart.
Alloc(body, n) == [body |-> body, n |-> n]

\* Handle taking the address of the value before it was pinned: it points
\* into no pinned document.
Handle_OfUnpinned(doc, path, draft) ==
    [doc |-> [body |-> doc.body, n |-> 0 - 1], path |-> path, draft |-> draft]

\* InnerResourcePtr::new
Handle(doc, path, draft) == [doc |-> doc, path |-> path, draft |-> draft]

\* InnerResourcePtr::contents
Contents(h) == Walk(BodyOf(h.doc.body), h.path).val

EmptyMap == <<>>
\* Insert into a map emptied first.
Insert_Cleared(map, k, v) == (k :> v)

\* Insert that keeps the value of a key the map already has.
Insert_KeepExisting(map, k, v) == map @@ (k :> v)

\* AHashMap::insert: the value of a key the map already has is replaced.
Insert(map, k, v) == (k :> v) @@ map

\* Anchor and AnchorKey
Anchor(name, h) == [name |-> name, resource |-> h]
AnchorKey(uri, name) == <<uri, name>>

\* InnerResourcePtr::anchors
AnchorsOf(h) ==
    LET a == GetStr(Contents(h), "$anchor") IN
    IF a.some THEN <<Anchor(a.val, h)>> ELSE <<>>

RECURSIVE InsertAnchors(_, _, _)
InsertAnchors(anchors, base, as) ==
    IF Len(as) = 0 THEN anchors
    ELSE InsertAnchors(Insert(anchors, AnchorKey(base, Head(as).name), Head(as)), base, Tail(as))

\* The subresources of h as queue entries under `base`.
Subresources(base, h) ==
    LET ps == SubresourcesOf(Contents(h), h.draft) IN
    [i \in 1..Len(ps) |-> [base |-> base, res |-> Handle(h.doc, h.path \o ps[i], h.draft)]]

\* ----------------------------------------------- collect_external_resources

NoError == [ok |-> TRUE]

\* ResolveReference attaching the fragment as it stands in the reference:
\* `with_fragment(Some(EncodedString::new_or_panic(fragment)))`.
ResolveReference_Unencoded(base, reference) ==
    IF HasFragment(base)
    THEN LET sp == SplitOnceHash(reference)
             r  == ResolveAgainst(SetFragmentNone(base), sp.path)
         IN  IF ~r.ok THEN r
             ELSE IF ~sp.found THEN r
             ELSE IF IsEncoded(sp.fragment) THEN Ok(WithFragment(r.val, sp.fragment))
             ELSE Panicked(sp.fragment)
    ELSE ResolveAgainst(base, reference)

\* The reference resolved against the base: with the base's fragment cleared
\* and the reference's fragment re-attached when the base has a fragment.
\* EncodedString::new_or_panic panics on a text that is not encoded.
ResolveReference(base, reference) ==
    IF HasFragment(base)
    THEN LET sp == SplitOnceHash(reference)
             r  == ResolveAgainst(SetFragmentNone(base), sp.path)
         IN  IF ~r.ok THEN r
             ELSE IF ~sp.found THEN r
             ELSE IF IsEncoded(sp.fragment) THEN Ok(WithFragment(r.val, sp.fragment))
             ELSE IF IsEncoded(EncodeTo(sp.fragment))
                  THEN Ok(WithFragment(r.val, EncodeTo(sp.fragment)))
             ELSE Panicked(EncodeTo(sp.fragment))
    ELSE ResolveAgainst(base, reference)

\* IsWellKnown with prefixes cut short: every http(s) reference counts as well known.
IsWellKnown_ShortPrefix(base, reference) ==
    \/ StartsWith(reference, <<"https", ":", "//">>)
    \/ StartsWith(reference, <<"http", ":", "//">>)
    \/ StartsWith(base, HttpsDraftPrefix)

\* IsWellKnown without the two tests on the reference itself.
IsWellKnown_BaseOnly(base, reference) ==
    StartsWith(base, HttpsDraftPrefix)

\* "Skip well-known schema references"
IsWellKnown(base, reference) ==
    \/ StartsWith(reference, HttpsDraftPrefix)
    \/ StartsWith(reference, HttpDraftPrefix)
    \/ StartsWith(base, HttpsDraftPrefix)

\* IsLocal answering no for every reference.
IsLocal_Never(reference) == FALSE

\* `$reference.starts_with('#')`
IsLocal(reference) == StartsWith(reference, <<"#">>)

\* Seen consulted for references to other documents only.
Seen_ExternalOnly(st, base, reference) ==
    ~IsLocal(reference) /\ <<base, reference>> \in st.seen

\* `seen.insert(hash)` answering false: the pair was recorded before.
Seen(st, base, reference) == <<base, reference>> \in st.seen

\* One more handling of the pair p in the count f.
Bump(f, p) == IF p \in DOMAIN f THEN [f EXCEPT ![p] = @ + 1] ELSE (p :> 1) @@ f

RECURSIVE CollectExternalResources(_, _, _)
RECURSIVE OnReference(_, _, _, _, _)

\* The macro on_reference!; st holds collected, seen, refers_metaschemas, the
\* error a `?` returned with, and the count of the pairs it went on with.
OnReference(base, contents, st, reference, key) ==
    IF ~st.err.ok THEN st
    ELSE IF IsWellKnown(base, reference)
         THEN IF key = "$ref" THEN [st EXCEPT !.refers = TRUE] ELSE st
    ELSE IF reference = <<"#">> THEN st
    ELSE IF Seen(st, base, reference) THEN st
    ELSE LET st1 == [st EXCEPT !.seen = @ \cup {<<base, reference>>},
                               !.times = Bump(@, <<base, reference>>)] IN
         IF IsLocal(reference)
         THEN LET p == Pointer(contents, TrimStartHash(reference)) IN
              IF p.some
              THEN CollectExternalResources(base, Walk(contents, p.val).val, st1)
              ELSE st1
         ELSE LET resolved == ResolveReference(base, reference) IN
              IF resolved.ok
              THEN [st1 EXCEPT !.collected = @ \cup {resolved.val}]
              ELSE [st1 EXCEPT !.err = resolved]

\* The references among the members `keys`, taken in that order.
RECURSIVE OnMembers(_, _, _, _)
OnMembers(base, contents, st, keys) ==
    IF Len(keys) = 0 THEN st
    ELSE LET key == Head(keys)
             ref == GetStr(contents, key)
             st1 == IF key \in {"$ref", "$schema"} /\ ref.some
                    THEN OnReference(base, contents, st, ref.val, key)
                    ELSE st
         IN  OnMembers(base, contents, st1, Tail(keys))

\* CollectExternalResources without the early return for a urn base.
CollectExternalResources_NoUrnCheck(base, contents, st) ==
    IF ~IsObject(contents) THEN st
    ELSE IF Cardinality(DOMAIN contents.m) < 3
         THEN OnMembers(base, contents, st, Present(contents.m))
         ELSE OnMembers(base, contents, st, <<"$ref", "$schema">>)

\* ByIteration visiting `$schema` before `$ref`.
ByIteration_SchemaFirst(base, contents, st) ==
    OnMembers(base, contents, st, <<"$schema", "$ref">>)

\* `for (key, value) in object { if key == "$ref" {..} else if key == "$schema" {..} }`
ByIteration(base, contents, st) ==
    OnMembers(base, contents, st, Present(contents.m))

\* `object.get("$ref")...` followed by `object.get("$schema")...`
ByLookup(base, contents, st) ==
    OnMembers(base, contents, st, <<"$ref", "$schema">>)

CollectExternalResources(base, contents, st) ==
    IF Scheme(base) = "urn" THEN st
    ELSE IF ~IsObject(contents) THEN st
    ELSE IF Cardinality(DOMAIN contents.m) < 3
         THEN ByIteration(base, contents, st)
         ELSE ByLookup(base, contents, st)

\* ------------------------------------------------------- meta-schema table

\* meta::META_SCHEMAS
MetaSchemas ==
    << [uri |-> Meta202012, body |-> "meta202012", draft |-> "Draft202012"],
       [uri |-> Meta07 \o <<"#">>, body |-> "meta07", draft |-> "Draft7"] >>

\* One turn of the queue loop of process_meta_schemas: the popped entry is
\* registered under its id, its anchors are added, its subresources pushed.
MetaTurn(q, res, anch, h, id) ==
    IF id.some
    THEN [queue     |-> Tail(q) \o Subresources(ResolveAgainst(Head(q).base, id.val).val, h),
          resources |-> Insert(res, ResolveAgainst(Head(q).base, id.val).val, h),
          anchors   |-> InsertAnchors(anch, ResolveAgainst(Head(q).base, id.val).val,
                                      AnchorsOf(h))]
    ELSE [queue     |-> Tail(q) \o Subresources(Head(q).base, h),
          resources |-> res,
          anchors   |-> InsertAnchors(anch, Head(q).base, AnchorsOf(h))]

\* The queue loop of process_meta_schemas. The popped handle, its id and the
\* outcome of the turn are bound as elements of singleton sets, so that each
\* is computed once per turn.
RECURSIVE MetaLoop(_, _, _)
MetaLoop(q, res, anch) ==
    IF Len(q) = 0 THEN [resources |-> res, anchors |-> anch]
    ELSE CHOOSE out \in
             { MetaLoop(t.queue, t.resources, t.anchors) :
                 t \in UNION { { MetaTurn(q, res, anch, h, id) :
                                   id \in {IdOf(Contents(h), h.draft)} } :
                               h \in {Head(q).res} } } : TRUE

\* The intake loop of process_meta_schemas: every pair is parsed, pinned,
\* inserted in both maps and queued.
RECURSIVE MetaIntake(_, _, _, _)
MetaIntake(ps, docs, res, q) ==
    IF Len(ps) = 0 THEN [documents |-> docs, queue |-> q, resources |-> res]
    ELSE CHOOSE out \in
             { MetaIntake(Tail(ps), Insert(docs, e.base, e.res.doc),
                          Insert(res, e.base, e.res), Append(q, e)) :
                 e \in { [base |-> FromStr(TrimEndHash(Head(ps).uri)).val,
                          res  |-> Handle(Alloc(Head(ps).body, 0), <<>>, Head(ps).draft)] } } : TRUE

\* The static SPECIFICATIONS: the maps process_meta_schemas builds from
\* META_SCHEMAS, starting from empty ones.
SPECIFICATIONS ==
    CHOOSE table \in
        { [documents |-> i.documents, resources |-> l.resources, anchors |-> l.anchors] :
            <<i, l>> \in UNION { { <<i, l>> : l \in {MetaLoop(i.queue, i.resources, EmptyMap)} } :
                                  i \in {MetaIntake(MetaSchemas, EmptyMap, EmptyMap, <<>>)} } } : TRUE

\* -------------------------------------------------------------------- state

VARIABLES
    pc,                 \* where the builder is: init, queue, drain, done, failed
    error,              \* the Error a failed build returned
    pairs,              \* the pairs given to the current build
    retriever,          \* the retriever of the current build
    default_draft,      \* the default draft of the current build
    documents,          \* DocumentStore: uri -> pinned document
    resources,          \* ResourceMap: uri -> handle
    anchors,            \* AnchorKey -> Anchor
    queue,              \* process_resources: queue
    seen,               \* process_resources: seen
    external,           \* process_resources: external
    refers_metaschemas, \* process_resources: refers_metaschemas
    calls,              \* the URIs the retriever was called with in this build
    walked,             \* the nodes popped from the queue in this build, with their base
    nalloc,             \* documents pinned so far
    used,               \* pairs handed to the builder so far
    first,              \* the key sets of the first of two builds of the same input
    answer,             \* what the last query of the finished registry returned
    handled,            \* how often on_reference! went on with a (base, reference) in this build
    cli                 \* the command-line front end: its arguments, position and exit code

vars ==
    <<pc, error, pairs, retriever, default_draft, documents, resources, anchors, queue,
      seen, external, refers_metaschemas, calls, walked, nalloc, used, first, answer,
      handled, cli>>

registry == <<documents, resources, anchors>>
locals == <<queue, seen, external, refers_metaschemas, handled>>
args == <<pairs, retriever, default_draft, used>>
caller == <<first, answer, cli>>

\* No query made of the registry since it was built.
NoAnswer == [op |-> "none"]

\* The command-line front end before main is entered.
NotStarted ==
    [at |-> "start", config |-> None, read |-> <<>>, built |-> FALSE, success |-> TRUE,
     next |-> 1, validated |-> <<>>, out |-> <<>>, exit |-> "none"]

Init ==
    /\ pc = "init"
    /\ error = NoError
    /\ pairs = <<>>
    /\ retriever = "default"
    /\ default_draft = "Draft202012"
    /\ documents = EmptyMap
    /\ resources = EmptyMap
    /\ anchors = EmptyMap
    /\ queue = <<>>
    /\ seen = {}
    /\ external = {}
    /\ refers_metaschemas = FALSE
    /\ calls = <<>>
    /\ walked = {}
    /\ nalloc = 0
    /\ used = 0
    /\ first = None
    /\ answer = NoAnswer
    /\ handled = EmptyMap
    /\ cli = NotStarted

\* ------------------------------------------------- process_resources, intake

Reverse(s) == [i \in 1..Len(s) |-> s[Len(s) + 1 - i]]

\* Vec::dedup_by on the uri: of a run of consecutive equal uris the first stays.
DedupBy(s) ==
    LET keep == {i \in 1..Len(s) : i = 1 \/ s[i].uri # s[i - 1].uri}
        pos(k) == CHOOSE i \in keep : Cardinality({j \in keep : j <= i}) = k
    IN  [k \in 1..Cardinality(keep) |-> s[pos(k)]]

\* ParsePairs without the trimming of trailing "#"s.
ParsePairs_NoTrim(ps) == [i \in 1..Len(ps) |-> FromStr(ps[i].uri)]

\* uri::from_str(uri.trim_end_matches('#')) of every pair, in order.
ParsePairs(ps) == [i \in 1..Len(ps) |-> FromStr(TrimEndHash(ps[i].uri))]

\* InputPairsOf without the reversal.
InputPairsOf_NoReverse(ps) ==
    DedupBy([i \in 1..Len(ps) |-> [ps[i] EXCEPT !.uri = ParsePairs(ps)[i].val]])

\* The pairs as process_resources walks them: parsed, reversed, deduplicated.
InputPairsOf(ps) ==
    DedupBy(Reverse([i \in 1..Len(ps) |-> [ps[i] EXCEPT !.uri = ParsePairs(ps)[i].val]]))

\* Vacant answering yes for every key.
Vacant_Always(docs, key) == TRUE

\* `match documents.entry(key) { Entry::Occupied(_) => ..., Entry::Vacant(entry) => ... }`
Vacant(docs, key) == key \notin DOMAIN docs

\* The loop over input_pairs: a pair whose uri is vacant in the document store
\* is pinned, registered and enqueued; an occupied one is left alone.
RECURSIVE IntakeLoop(_, _)
IntakeLoop(ps, st) ==
    IF Len(ps) = 0 THEN st
    ELSE LET key == Head(ps).uri IN
         IF ~Vacant(st.documents, key) THEN IntakeLoop(Tail(ps), st)
         ELSE LET boxed    == Alloc(Head(ps).body, st.nalloc + 1)
                  resource == Handle(boxed, <<>>, Head(ps).draft)
              IN  IntakeLoop(Tail(ps),
                     [documents |-> Insert(st.documents, key, boxed),
                      resources |-> Insert(st.resources, key, resource),
                      queue     |-> Append(st.queue, [base |-> key, res |-> resource]),
                      nalloc    |-> st.nalloc + 1])

\* The sequences of 1..n input pairs.
PairSeqs(n) == UNION {[1..k -> InputPairs] : k \in 1..n}

\* The smallest index of ps whose uri does not parse; 0 when all parse.
FirstBad(ps) ==
    IF \A i \in 1..Len(ps) : ParsePairs(ps)[i].ok THEN 0
    ELSE CHOOSE i \in 1..Len(ps) :
             ~ParsePairs(ps)[i].ok /\ \A j \in 1..(i - 1) : ParsePairs(ps)[j].ok

\* Intake parsing each uri only when its pair is reached: the pairs before the
\* first bad one are interned.
Intake_ParseLazily(ps) ==
    [err |-> IF FirstBad(ps) # 0 THEN ParsePairs(ps)[FirstBad(ps)] ELSE NoError] @@
    IntakeLoop(InputPairsOf(IF FirstBad(ps) # 0 THEN SubSeq(ps, 1, FirstBad(ps) - 1) ELSE ps),
               [documents |-> documents, resources |-> resources,
                queue |-> <<>>, nalloc |-> nalloc])

\* process_resources up to the discovery loop: every uri is parsed and the
\* first failure returned; otherwise the pairs are interned and enqueued.
Intake(ps) ==
    IF FirstBad(ps) # 0
    THEN [err |-> ParsePairs(ps)[FirstBad(ps)], documents |-> documents,
          resources |-> resources, queue |-> <<>>, nalloc |-> nalloc]
    ELSE [err |-> NoError] @@
         IntakeLoop(InputPairsOf(ps),
                    [documents |-> documents, resources |-> resources,
                     queue |-> <<>>, nalloc |-> nalloc])

\* A call of process_resources on the maps of the registry being built or
\* extended, up to the discovery loop.
Begin(ps, r, d) ==
    /\ pairs' = ps
    /\ retriever' = r
    /\ default_draft' = d
    /\ used' = used + Len(ps)
    /\ calls' = <<>>
    /\ walked' = {}
    /\ seen' = {}
    /\ external' = {}
    /\ refers_metaschemas' = FALSE
    /\ handled' = EmptyMap
    /\ anchors' = anchors
    /\ first' = first
    /\ answer' = NoAnswer
    /\ cli' = cli
    /\ \E st \in {Intake(ps)} :
          /\ pc' = IF st.err.ok THEN "queue" ELSE "failed"
          /\ error' = st.err
          /\ documents' = st.documents
          /\ resources' = st.resources
          /\ queue' = st.queue
          /\ nalloc' = st.nalloc

\* Registry::try_from_resources (RegistryOptions::try_from_resources)
TryFromResources ==
    /\ pc = "init"
    /\ \E ps \in PairSeqs(MaxPairs - used), r \in Retrievers, d \in {"Draft202012"} :
          Begin(ps, r, d)

\* Registry::try_with_resources_and_retriever
TryWithResourcesAndRetriever ==
    /\ pc = "done"
    /\ \E ps \in PairSeqs(MaxPairs - used), r \in Retrievers, d \in {"Draft202012"} :
          Begin(ps, r, d)

\* ----------------------------------------- process_resources, discovery loop

\* InsertAlias leaving alone a URI that is a key of the map already.
InsertAlias_UnlessPresent(res, id, base, resource) ==
    IF id.some /\ base \notin DOMAIN res THEN Insert(res, base, resource) ELSE res

\* `if let Some(id) = resource.id() { ...; resources.insert(base.clone(), resource.clone()); }`
InsertAlias(res, id, base, resource) ==
    IF id.some THEN Insert(res, base, resource) ELSE res

\* Rebase leaving the queued base as it is, `$id` or not.
Rebase_KeepBase(base, id) == Ok(base)

\* `if let Some(id) = resource.id() { base = resolution_cache.resolve_against(&base.borrow(), id)?; ... }`
Rebase(base, id) == IF id.some THEN ResolveAgainst(base, id.val) ELSE Ok(base)

\* One turn of `while let Some((base, resource)) = queue.pop_front()`.
ProcessQueue ==
    /\ pc = "queue"
    /\ queue # <<>>
    /\ \E resource \in {Head(queue).res} :
       \E id \in {IdOf(Contents(resource), resource.draft)} :
       \E rb \in {Rebase(Head(queue).base, id)} :
           /\ walked' = walked \cup {[base |-> IF rb.ok THEN rb.val ELSE Head(queue).base,
                                        res |-> resource]}
           /\ IF ~rb.ok
              THEN /\ pc' = "failed"
                   /\ error' = rb
                   /\ queue' = Tail(queue)
                   /\ UNCHANGED <<resources, anchors, seen, external, refers_metaschemas,
                                   handled>>
              ELSE \E base \in {rb.val} :
                   \E st \in {CollectExternalResources(base, Contents(resource),
                                  [collected |-> external, seen |-> seen,
                                   refers |-> refers_metaschemas, err |-> NoError,
                                   times |-> handled])} :
                       /\ resources' = InsertAlias(resources, id, base, resource)
                       /\ anchors' = InsertAnchors(anchors, base, AnchorsOf(resource))
                       /\ external' = st.collected
                       /\ seen' = st.seen
                       /\ refers_metaschemas' = st.refers
                       /\ handled' = st.times
                       /\ IF st.err.ok
                          THEN /\ queue' = Tail(queue) \o Subresources(base, resource)
                               /\ UNCHANGED <<pc, error>>
                          ELSE /\ queue' = Tail(queue)
                               /\ pc' = "failed"
                               /\ error' = st.err
    /\ UNCHANGED <<args, caller, documents, calls, nalloc>>

\* AlreadyKnown looking the uri up with its fragment.
AlreadyKnown_KeepsFragment(uri) == uri \in DOMAIN resources

\* AlreadyKnown answering no for every uri.
AlreadyKnown_Never(uri) == FALSE

\* AlreadyKnown looking the uri up in the document store.
AlreadyKnown_InDocuments(uri) == SetFragmentNone(uri) \in DOMAIN documents

\* `resources.contains_key(&fragmentless)`
AlreadyKnown(uri) == SetFragmentNone(uri) \in DOMAIN resources

\* Unretrievable carrying the drained uri, fragment included.
Unretrievable_RequestedUri(uri, cause) ==
    Err("Unretrievable", [uri |-> uri, cause |-> cause])

\* `.map_err(|err| Error::unretrievable(fragmentless.as_str(), err))`
Unretrievable(uri, cause) ==
    Err("Unretrievable", [uri |-> SetFragmentNone(uri), cause |-> cause])

\* Fragmentless leaving the fragment in place.
Fragmentless_Clone(uri) == uri

\* `let mut fragmentless = uri.clone(); fragmentless.set_fragment(None);`
Fragmentless(uri) == SetFragmentNone(uri)

\* DocumentDraft falling back to the default draft on an unknown `$schema`.
DocumentDraft_FallsBack(default, retrieved) ==
    IF Detect(default, retrieved).ok THEN Detect(default, retrieved) ELSE Ok(default)

\* `let draft = default_draft.detect(&retrieved)?;`
DocumentDraft(default, retrieved) == Detect(default, retrieved)

\* PointedDraft taking the draft detected for the document.
PointedDraft_OfDocument(default, draft, resolved) == Ok(draft)

\* `let draft = default_draft.detect(resolved)?;` for the node the fragment
\* points to; it shadows `draft`, the draft detected for the document.
PointedDraft(default, draft, resolved) == Detect(default, resolved)

\* Unresolved failing the build.
Unresolved_Fails(stored, root, uri) ==
    [stored EXCEPT !.err = Err("PointerMiss", uri)]

\* `if let Some(resolved) = pointer(..)` finding None: only line 495 pushes.
Unresolved(stored, root, uri) == [stored EXCEPT !.pushed = <<root>>]

\* What one turn of `for uri in external.drain()` does with `uri`.
Retrieved(uri) ==
    LET fragmentless == Fragmentless(uri)
        same == [documents |-> documents, resources |-> resources, pushed |-> <<>>,
                 calls |-> calls, nalloc |-> nalloc, err |-> NoError]
    IN  IF AlreadyKnown(uri) THEN same
        ELSE LET got    == Retrieve(retriever, fragmentless)
                 called == [same EXCEPT !.calls = Append(calls, fragmentless)]
             IN
             IF ~got.ok THEN [called EXCEPT !.err = Unretrievable(uri, got.what)]
             ELSE LET draft == DocumentDraft(default_draft, BodyOf(got.val)) IN
             IF ~draft.ok THEN [called EXCEPT !.err = draft]
             ELSE LET boxed    == Alloc(got.val, nalloc + 1)
                      resource == Handle(boxed, <<>>, draft.val)
                      stored   == [called EXCEPT
                                     !.documents = Insert(documents, fragmentless, boxed),
                                     !.resources = Insert(resources, fragmentless, resource),
                                     !.nalloc = nalloc + 1]
                      resolved == IF HasFragment(uri)
                                  THEN Pointer(Contents(resource), Fragment(uri))
                                  ELSE None
                      root     == [base |-> fragmentless, res |-> resource]
                  IN
                  IF ~HasFragment(uri) THEN [stored EXCEPT !.pushed = <<root>>]
                  ELSE IF ~resolved.some THEN Unresolved(stored, root, uri)
                  ELSE LET d2 == PointedDraft(default_draft, draft.val,
                                              Walk(Contents(resource), resolved.val).val) IN
                       IF ~d2.ok THEN [stored EXCEPT !.err = d2]
                       ELSE [stored EXCEPT !.pushed =
                                <<[base |-> fragmentless,
                                   res |-> Handle(boxed, resolved.val, d2.val)], root>>]

\* Draining whenever the external set is not empty, the queue empty or not.
Draining_Anytime == pc \in {"queue", "drain"}

\* The builder is in `for uri in external.drain()`: it was there already, or
\* `while let Some(..) = queue.pop_front()` has just found the queue empty.
Draining ==
    \/ pc = "drain"
    \/ pc = "queue" /\ queue = <<>>

\* One turn of `for uri in external.drain()`, entered when the queue is empty.
RetrieveExternal ==
    /\ Draining
    /\ external # {}
    /\ \E uri \in external :
       \E st \in {Retrieved(uri)} :
          /\ external' = external \ {uri}
          /\ documents' = st.documents
          /\ resources' = st.resources
          /\ queue' = queue \o st.pushed
          /\ calls' = st.calls
          /\ nalloc' = st.nalloc
          /\ IF st.err.ok
             THEN /\ pc' = IF external' = {} THEN "queue" ELSE "drain"
                  /\ UNCHANGED error
             ELSE /\ pc' = "failed"
                  /\ error' = st.err
    /\ UNCHANGED <<args, caller, anchors, seen, refers_metaschemas, walked, handled>>

\* InsertAll that keeps the entry of a key the map already has.
InsertAll_KeepExisting(map, from) == map @@ from

InsertAll(map, from) == from @@ map

\* Finish leaving the loop as soon as the queue is empty.
Finish_QueueOnly ==
    /\ pc \in {"queue", "drain"}
    /\ queue = <<>>
    /\ pc' = "done"
    /\ resources' = IF refers_metaschemas THEN InsertAll(resources, SPECIFICATIONS.resources)
                    ELSE resources
    /\ anchors' = IF refers_metaschemas THEN InsertAll(anchors, SPECIFICATIONS.anchors)
                  ELSE anchors
    /\ UNCHANGED <<error, args, caller, documents, locals, calls, walked, nalloc>>

\* Finish without the copy of the meta-schema table.
Finish_NoMetaSchemas ==
    /\ pc = "queue"
    /\ queue = <<>>
    /\ external = {}
    /\ pc' = "done"
    /\ UNCHANGED <<error, args, caller, registry, locals, calls, walked, nalloc>>

\* The end of process_resources: `break`, the meta-schemas, Ok(()).
Finish ==
    /\ pc = "queue"
    /\ queue = <<>>
    /\ external = {}
    /\ pc' = "done"
    /\ resources' = IF refers_metaschemas THEN InsertAll(resources, SPECIFICATIONS.resources)
                    ELSE resources
    /\ anchors' = IF refers_metaschemas THEN InsertAll(anchors, SPECIFICATIONS.anchors)
                  ELSE anchors
    /\ UNCHANGED <<error, args, caller, documents, locals, calls, walked, nalloc>>

Next ==
    \/ TryFromResources
    \/ TryWithResourcesAndRetriever
    \/ ProcessQueue
    \/ RetrieveExternal
    \/ Finish

Spec == Init /\ [][Next]_vars

FairSpec ==
    Spec /\ WF_vars(ProcessQueue) /\ WF_vars(RetrieveExternal) /\ WF_vars(Finish)

\* ------------------------------------------------- queries of a registry

\* The closed set of error kinds.
ErrorKinds ==
    {"InvalidUri", "Unretrievable", "UnknownSpecification", "Unresolvable", "PointerMiss",
     "InvalidAnchor", "NoSuchAnchor", "InvalidSchema"}

\* The end of Registry::anchor, after the lookups missed.
Missed(name) ==
    IF IndexOf(name, "/") > 0 THEN Err("InvalidAnchor", name) ELSE Err("NoSuchAnchor", name)

\* RegistryAnchor testing the name for "/" before any lookup.
RegistryAnchor_SlashFirst(uri, name) ==
    IF IndexOf(name, "/") > 0 THEN Err("InvalidAnchor", name)
    ELSE IF AnchorKey(uri, name) \in DOMAIN anchors THEN Ok(anchors[AnchorKey(uri, name)])
    ELSE Err("NoSuchAnchor", name)

\* Registry::anchor.  `self.resources[uri]` panics when uri is no key.
RegistryAnchor(uri, name) ==
    IF AnchorKey(uri, name) \in DOMAIN anchors THEN Ok(anchors[AnchorKey(uri, name)])
    ELSE IF uri \notin DOMAIN resources THEN Panicked(uri)
    ELSE LET id == IdOf(Contents(resources[uri]), resources[uri].draft) IN
         IF ~id.some THEN Missed(name)
         ELSE IF ~FromStr(id.val).ok THEN FromStr(id.val)
         ELSE IF AnchorKey(FromStr(id.val).val, name) \in DOMAIN anchors
              THEN Ok(anchors[AnchorKey(FromStr(id.val).val, name)])
         ELSE Missed(name)

\* The URIs and the anchor names the registry is asked about.
QueryUris == {Http("a"), S2, S3, Http("none")}
QueryNames == {<<"n", "/", "m">>, <<"k">>, <<"foo", "/", "bar">>, <<"unknown">>}

\* A call of Registry::anchor on the registry a build returned.
FindAnchor ==
    /\ pc = "done"
    /\ used <= MaxQueried
    /\ \E uri \in QueryUris, name \in QueryNames :
          answer' = [op |-> "anchor", uri |-> uri, name |-> name,
                     result |-> RegistryAnchor(uri, name)]
    /\ UNCHANGED <<pc, error, args, first, cli, registry, locals, calls, walked, nalloc>>

\* The cause tests::test_lookup_unresolvable_url expects in the error's text.
NotSupported ==
    "Retrieving external resources is not supported once the registry is populated"

\* Display of an Unretrievable error, as the tests spell it out.
Display(e) ==
    <<"Resource '", e.what.uri,
      "' is not present in a registry and retrieving it failed: ", e.what.cause>>

\* LookupMiss with the error kind named Unresolvable.
LookupMiss_Unresolvable(uri) == Err("Unresolvable", [uri |-> uri, cause |-> NotSupported])

\* The error of a lookup whose document is no key of the resource map: its
\* text is the text of Error::unretrievable(uri, cause).
LookupMiss(uri) == Unretrievable(uri, NotSupported)

\* Resolver::lookup, for a resolver whose base is `base`.
ResolverLookup(base, reference) ==
    LET sp  == SplitOnceHash(reference)
        abs == ResolveAgainst(base, sp.path)
    IN  IF ~abs.ok THEN abs
        ELSE IF abs.val \notin DOMAIN resources THEN LookupMiss(abs.val)
        ELSE IF Len(sp.fragment) = 0 THEN Ok(Contents(resources[abs.val]))
        ELSE IF sp.fragment[1] = "/"
             THEN IF Pointer(Contents(resources[abs.val]), sp.fragment).some
                  THEN Ok(Walk(Contents(resources[abs.val]),
                               Pointer(Contents(resources[abs.val]), sp.fragment).val).val)
                  ELSE Err("PointerMiss", reference)
        ELSE IF RegistryAnchor(abs.val, sp.fragment).ok
             THEN Ok(Contents(RegistryAnchor(abs.val, sp.fragment).val.resource))
        ELSE RegistryAnchor(abs.val, sp.fragment)

\* The bases of the resolvers made and the references looked up.
LookupBases == {Http("none")}
LookupRefs == {<<>>, S1, S2 \o <<"#", "/", "properties">>}

\* A call of Resolver::lookup on a resolver of the registry a build returned.
Lookup ==
    /\ pc = "done"
    /\ used <= MaxQueried
    /\ \E base \in LookupBases, reference \in LookupRefs :
          answer' = [op |-> "lookup", base |-> base, reference |-> reference,
                     result |-> ResolverLookup(base, reference)]
    /\ UNCHANGED <<pc, error, args, first, cli, registry, locals, calls, walked, nalloc>>

\* Builds, and queries of the registries they return.
QuerySpec == Init /\ [][Next \/ FindAnchor \/ Lookup]_vars

\* Registry::try_from_resources called a second time, with the pairs and the
\* retriever of a finished build of a fresh registry; `first` keeps the key
\* sets the first call returned.
BuildAgain ==
    /\ pc = "done"
    /\ ~first.some
    /\ used = Len(pairs)
    /\ first' = Some([resources |-> DOMAIN resources, anchors |-> DOMAIN anchors])
    /\ \E st \in {IntakeLoop(InputPairsOf(pairs),
                              [documents |-> EmptyMap, resources |-> EmptyMap,
                               queue |-> <<>>, nalloc |-> 0])} :
          /\ documents' = st.documents
          /\ resources' = st.resources
          /\ queue' = st.queue
          /\ nalloc' = st.nalloc
    /\ anchors' = EmptyMap
    /\ pc' = "queue"
    /\ calls' = <<>>
    /\ walked' = {}
    /\ seen' = {}
    /\ external' = {}
    /\ refers_metaschemas' = FALSE
    /\ handled' = EmptyMap
    /\ UNCHANGED <<error, args, answer, cli>>

\* Builds, and the same build made twice.
TwiceSpec == Init /\ [][Next \/ BuildAgain]_vars

\* Input pairs whose URI string carries a non-empty fragment.
FragmentPairs ==
    { [uri |-> S1 \o <<"#", "f">>, body |-> "r2", draft |-> "Draft202012"],
      [uri |-> S2 \o <<"#", "/", "properties">>, body |-> "rel", draft |-> "Draft202012"],
      [uri |-> S3 \o <<"#", "/", "bar">>, body |-> "plain", draft |-> "Draft202012"] }

\* Input pairs whose documents hold local references.
LocalPairs ==
    { [uri |-> S1, body |-> "internal", draft |-> "Draft202012"],
      [uri |-> S2, body |-> "root", draft |-> "Draft202012"],
      [uri |-> Http("n"), body |-> "nested", draft |-> "Draft202012"],
      [uri |-> Http("c"), body |-> "cycle", draft |-> "Draft202012"] }

\* An input pair whose document has an `$id` at its root and another one in a
\* subresource, with anchors and relative references under both.
NestedIdPairs ==
    { [uri |-> OuterUri, body |-> "outer", draft |-> "Draft202012"] }

\* Registry::try_from_resources given, among its pairs, one of these.
TryFromResourcesWide ==
    /\ pc = "init"
    /\ \E ps \in UNION {[1..k -> InputPairs \cup FragmentPairs \cup LocalPairs \cup NestedIdPairs] :
                          k \in 1..MaxWidePairs},
          r \in Retrievers, d \in {"Draft202012"} :
          /\ \E i \in DOMAIN ps : ps[i] \notin InputPairs
          /\ Begin(ps, r, d)

\* Builds of a fresh registry from the wider family of inputs.
WideSpec ==
    Init /\ [][TryFromResourcesWide \/ ProcessQueue \/ RetrieveExternal \/ Finish]_vars

\* Input pairs for builds through RegistryOptions: a base under
\* http://json-schema.org/draft-, the relative reference with a fragment of
\* cli.rs under a base given with and without a fragment, the pair of
\* tests::test_invalid_reference and its reference under a base without fragment;
\* objects with a `$ref` and a `$schema`, of two members and of three;
\* references to documents the retriever serves, with and without a
\* `$schema`, and with fragments that do and do not resolve in them.
OptionPairs ==
    { [uri |-> Meta07, body |-> "ext", draft |-> "Draft202012"],
      [uri |-> FileSchema \o <<"#">>, body |-> "s6", draft |-> "Draft202012"],
      [uri |-> FileSchema \o <<"#", "x">>, body |-> "s6", draft |-> "Draft202012"],
      [uri |-> FuzzUri, body |-> "fuzz", draft |-> "Draft202012"],
      [uri |-> Http("q"), body |-> "fuzz", draft |-> "Draft202012"],
      [uri |-> Http("i"), body |-> "fuzzid", draft |-> "Draft202012"],
      [uri |-> FileSchema, body |-> "both", draft |-> "Draft202012"],
      [uri |-> Http("two"), body |-> "two", draft |-> "Draft202012"],
      [uri |-> FileSub, body |-> "three", draft |-> "Draft202012"],
      [uri |-> Http("r1"), body |-> "tod7", draft |-> "Draft202012"],
      [uri |-> Http("r2"), body |-> "tounknown", draft |-> "Draft202012"],
      [uri |-> Http("r3"), body |-> "misses", draft |-> "Draft202012"] }

\* RegistryOptions::new().retriever(r).draft(d).try_from_resources(pairs)
OptionsTryFromResources ==
    /\ pc = "init"
    /\ \E ps \in UNION {[1..k -> OptionPairs] : k \in 1..MaxOptionPairs},
          r \in {"files"}, d \in Drafts :
          Begin(ps, r, d)

\* Builds of a fresh registry through RegistryOptions.
OptionsSpec ==
    Init /\ [][OptionsTryFromResources \/ ProcessQueue \/ RetrieveExternal \/ Finish]_vars

\* ------------------------------------------------------- command-line tool

\* What the file behind a path holds.  A schema file is missing or unreadable,
\* is not JSON, is JSON the validator refuses to build, or is a schema; an
\* instance file is missing or unreadable, is not JSON, fails the schema, or
\* passes it.  What the validator says of a readable file is an input here.
SchemaFiles == {"unreadable", "unparsable", "invalid", "valid"}
InstanceFiles == {"unreadable", "unparsable", "invalid", "valid"}

\* struct Cli: the flags and paths of one command line.  --draft and the
\* format flags are handed to the validator's options and change nothing else.
Configs ==
    [version : BOOLEAN,
     schema : {None} \cup {Some(f) : f \in SchemaFiles},
     instances : {None} \cup
                 {Some(fs) : fs \in UNION {[1..k -> InstanceFiles] : k \in 1..MaxInstances}}]

\* read_json: File::open, then serde_json::from_reader.
read_json(file) ==
    IF file = "unreadable" THEN "io"
    ELSE IF file = "unparsable" THEN "json"
    ELSE "ok"

\* The paths validate_instances is to go through.
Instances(config) == IF config.instances.some THEN config.instances.val ELSE <<>>

Validates_SchemaAlone(config) == config.schema.some

\* main: validate_instances is called when both a schema and instances are given.
Validates(config) == config.schema.some /\ config.instances.some

NextAfter_StopOnInvalid(instances, next, verdict) ==
    IF verdict = "invalid" THEN Len(instances) + 1 ELSE next + 1

\* validate_instances: the loop goes on to the next instance whatever the
\* validator said of this one.
NextAfter(instances, next, verdict) == next + 1

Line(text, n) == [line |-> text, n |-> n]
File(kind, n) == [file |-> kind, n |-> n]

\* The registry is left alone by the command-line tool's own steps.
library == <<pc, error, args, registry, locals, calls, walked, nalloc, first, answer>>

\* main, up to the call of validate_instances: Cli::parse, --version, and
\* the two if-lets.
Main ==
    /\ cli.at = "start"
    /\ \E config \in Configs :
          cli' =
            IF ~config.version /\ ~config.schema.some
            THEN [cli EXCEPT !.config = Some(config), !.at = "exited", !.exit = "usage"]
            ELSE IF config.version
            THEN [cli EXCEPT !.config = Some(config), !.at = "exited",
                             !.out = <<Line("Version", 0)>>, !.exit = "SUCCESS"]
            ELSE IF Validates(config)
            THEN [cli EXCEPT !.config = Some(config), !.at = "schema"]
            ELSE [cli EXCEPT !.config = Some(config), !.at = "exited", !.exit = "SUCCESS"]
    /\ UNCHANGED library

\* validate_instances, up to the loop: the schema is read and built.
ReadSchema ==
    /\ cli.at = "schema"
    /\ \E file \in {cli.config.val.schema.val} :
          cli' =
            IF read_json(file) # "ok"
            THEN [cli EXCEPT !.read = Append(@, File("schema", 0)),
                             !.out = Append(@, Line("Error", 0)),
                             !.at = "exited", !.exit = "FAILURE"]
            ELSE IF file = "invalid"
            THEN [cli EXCEPT !.read = Append(@, File("schema", 0)),
                             !.out = Append(@, Line("Schema is invalid", 0)),
                             !.success = FALSE,
                             !.at = "exited", !.exit = "FAILURE"]
            ELSE [cli EXCEPT !.read = Append(@, File("schema", 0)),
                             !.built = TRUE, !.at = "instances"]
    /\ UNCHANGED library

\* validate_instances, one turn of the loop: the next instance is read and
\* validated, and its verdict printed.
ValidateInstance ==
    /\ cli.at = "instances"
    /\ cli.next <= Len(Instances(cli.config.val))
    /\ \E file \in {Instances(cli.config.val)[cli.next]} :
          cli' =
            IF read_json(file) # "ok"
            THEN [cli EXCEPT !.read = Append(@, File("instance", cli.next)),
                             !.out = Append(@, Line("Error", cli.next)),
                             !.at = "exited", !.exit = "FAILURE"]
            ELSE [cli EXCEPT !.read = Append(@, File("instance", cli.next)),
                             !.validated = Append(@, cli.next),
                             !.success = @ /\ file = "valid",
                             !.out = Append(@, Line(IF file = "valid" THEN "VALID" ELSE "INVALID",
                                                    cli.next)),
                             !.next = NextAfter(Instances(cli.config.val), cli.next, file)]
    /\ UNCHANGED library

\* validate_instances returns Ok(success) and main turns it into the exit code.
Return ==
    /\ cli.at = "instances"
    /\ cli.next > Len(Instances(cli.config.val))
    /\ cli' = [cli EXCEPT !.at = "exited",
                          !.exit = IF cli.success THEN "SUCCESS" ELSE "FAILURE"]
    /\ UNCHANGED library

\* One run of the command-line tool.
CliSpec == Init /\ [][Main \/ ReadSchema \/ ValidateInstance \/ Return]_vars

\* ------------------------------------------------------------------- claims

Range(f) == {f[x] : x \in DOMAIN f}

\* The "$ref" and "$schema" strings of a node.
RefsOf(node) ==
    {GetStr(node, k).val : k \in {k \in {"$ref", "$schema"} : GetStr(node, k).some}}

IsMetaPrefixed(r) == StartsWith(r, HttpsDraftPrefix) \/ StartsWith(r, HttpDraftPrefix)

\* Neither meta-schema-prefixed, nor "#", nor a local "#..." reference.
IsExternalRef(r) == ~IsMetaPrefixed(r) /\ ~StartsWith(r, <<"#">>)

\* The reference resolves against the base to a document that is registered.
TargetRegistered(base, r) ==
    /\ ResolveAgainst(SetFragmentNone(base), SetFragmentNone(r)).ok
    /\ ResolveAgainst(SetFragmentNone(base), SetFragmentNone(r)).val \in DOMAIN resources

\* C1 as stated: after a successful build the document of every external
\* reference of every processed node with a non-urn base is a key of the
\* resource map.
C1_Original ==
    pc = "done" =>
        \A w \in walked : Scheme(w.base) # "urn" =>
            \A r \in RefsOf(Contents(w.res)) : IsExternalRef(r) => TargetRegistered(w.base, r)

\* C1, amended: after a successful build the document of every external
\* reference of every processed node is a key of the resource map, provided the
\* node's base is neither a urn nor under https://json-schema.org/draft/
\* (references of a node under that prefix are skipped).
C1_ExternalRefsRegistered ==
    pc = "done" =>
        \A w \in walked : (Scheme(w.base) # "urn" /\ ~StartsWith(w.base, HttpsDraftPrefix)) =>
            \A r \in RefsOf(Contents(w.res)) : IsExternalRef(r) => TargetRegistered(w.base, r)

\* A build that followed references through two retrieved documents.
C1_Witness ==
    /\ pc = "done"
    /\ Len(calls) >= 2
    /\ \E w \in walked : w.base = S2 /\ S3 \in RefsOf(Contents(w.res)) /\ S3 \in DOMAIN resources

\* C2: every build ends, also when the retrieved documents refer to each other
\* in a cycle, and it ends in success only with the queue and the external set
\* both empty.
C2_Terminates ==
    /\ [](pc = "done" => queue = <<>> /\ external = {})
    /\ (pc \in {"queue", "drain"}) ~> (pc \in {"done", "failed"})

\* A successful build that retrieved the whole cycle s1 -> s2 -> s3 -> s1.
C2_Witness ==
    /\ pc = "done"
    /\ retriever = "test"
    /\ calls = <<S2, S3>>
    /\ {S1, S2, S3} \subseteq DOMAIN resources

\* The documents the references handled so far in this build name.
ReferencedDocuments ==
    {ResolveAgainst(SetFragmentNone(p[1]), SetFragmentNone(p[2])).val :
        p \in {q \in seen : /\ ~StartsWith(q[2], <<"#">>)
                            /\ ResolveAgainst(SetFragmentNone(q[1]), SetFragmentNone(q[2])).ok}}

\* C3: within one build the retriever is called at most once for a document
\* uri, and only for documents some reference names, so there are at most as
\* many calls as distinct documents referenced.
C3_RetrievedOnce ==
    /\ \A i, j \in 1..Len(calls) : calls[i] = calls[j] => i = j
    /\ \A i \in 1..Len(calls) : calls[i] \in ReferencedDocuments
    /\ Len(calls) <= Cardinality(ReferencedDocuments)

\* Two references with different fragments to one document, retrieved once.
C3_Witness ==
    /\ pc = "done"
    /\ <<S2, S3>> \in seen
    /\ <<S2, S3 \o <<"#", "/", "bar">> >> \in seen
    /\ Cardinality({i \in 1..Len(calls) : calls[i] = S3}) = 1

\* C4: a retriever error stops the build at once: the failing call is the last
\* call, the build has failed with Unretrievable carrying the fragmentless uri
\* that was asked for and the retriever's message as cause; the default
\* retriever's message is "Default retriever does not fetch resources".
C4_RetrieverErrorStops ==
    \A i \in 1..Len(calls) : ~Retrieve(retriever, calls[i]).ok =>
        /\ i = Len(calls)
        /\ pc = "failed"
        /\ ~HasFragment(calls[i])
        /\ error = Err("Unretrievable",
                       [uri |-> calls[i], cause |-> Retrieve(retriever, calls[i]).what])
        /\ retriever = "default" =>
               error.what.cause = "Default retriever does not fetch resources"

\* A build that failed on its second retrieval, for a reference with a fragment.
C4_Witness ==
    /\ pc = "failed"
    /\ retriever = "partial"
    /\ calls = <<S2, S3>>
    /\ error.kind = "Unretrievable"
    /\ error.what.uri = S3
    /\ S3 \o <<"#", "/", "bar">> \notin external
    /\ S3 \in external

\* C5: no step of a build removes an entry of the document store or replaces
\* its value, so the document every handle points into stays in the store.
C5_DocumentsNeverReplaced ==
    [][ /\ \A u \in DOMAIN documents : u \in DOMAIN documents' /\ documents'[u] = documents[u]
        /\ \A u \in DOMAIN resources : resources[u].doc \in Range(documents) =>
               resources[u].doc \in Range(documents') ]_vars

\* An extension that retrieved documents into a store that held one already,
\* of which one was referred to again.
C5_Witness ==
    /\ pc = "done"
    /\ used > Len(pairs)
    /\ calls = <<S2, S3>>
    /\ S1 \in DOMAIN documents
    /\ nalloc > 3

\* The uris of the pairs of the current build.
InputKeys == {ParsePairs(pairs)[i].val : i \in 1..Len(pairs)}

\* The last pair of the current build given under the uri u.
LastPair(u) ==
    pairs[CHOOSE i \in 1..Len(pairs) :
              /\ ParsePairs(pairs)[i].val = u
              /\ \A j \in (i + 1)..Len(pairs) : ParsePairs(pairs)[j].val # u]

Occupied == {i \in 1..Len(pairs') : ParsePairs(pairs')[i].ok /\
                                     ParsePairs(pairs')[i].val \in DOMAIN documents}

\* C7: extending a registry by a pair whose uri is a key of its document store
\* leaves the document and the resource under that uri as they were and
\* enqueues nothing under it; when every pair is such a pair nothing is
\* interned or enqueued, and the call then succeeds with the registry as it
\* was.
C7_ExistingNotOverridden ==
    [][ /\ (pc = "done" /\ pc' # "done") =>
            /\ \A i \in Occupied :
                   /\ documents'[ParsePairs(pairs')[i].val] = documents[ParsePairs(pairs')[i].val]
                   /\ resources'[ParsePairs(pairs')[i].val] = resources[ParsePairs(pairs')[i].val]
                   /\ \A j \in 1..Len(queue') : queue'[j].base # ParsePairs(pairs')[i].val
            /\ Occupied = 1..Len(pairs') =>
                   /\ pc' = "queue"
                   /\ queue' = <<>>
                   /\ registry' = registry
                   /\ nalloc' = nalloc
        /\ (pc = "queue" /\ queue = <<>> /\ walked = {} /\ external = {}) =>
            /\ pc' = "done"
            /\ registry' = registry ]_vars

\* An extension by one pair under a uri of the store, with another body, that
\* succeeded without processing anything.
C7_Witness ==
    /\ pc = "done"
    /\ used > Len(pairs)
    /\ Len(pairs) = 1
    /\ walked = {}
    /\ ParsePairs(pairs)[1].val \in DOMAIN documents
    /\ documents[ParsePairs(pairs)[1].val].body # pairs[1].body

\* C8: a call given a uri that does not parse fails with InvalidUri, whatever
\* the position of the bad pair, and interns nothing, enqueues nothing,
\* processes nothing and calls no retriever; the failed call does nothing
\* more.
C8_InvalidUriFailsFirst ==
    [][ /\ (pc \in {"init", "done"} /\ FirstBad(pairs') # 0) =>
            /\ pc' = "failed"
            /\ error'.kind = "InvalidUri"
            /\ registry' = registry
            /\ nalloc' = nalloc
            /\ queue' = <<>>
            /\ walked' = {}
            /\ calls' = <<>>
        /\ pc # "failed" ]_vars

\* A failed build whose bad pair came second, after a pair that parses.
C8_Witness ==
    /\ pc = "failed"
    /\ error.kind = "InvalidUri"
    /\ Len(pairs) >= 2
    /\ FirstBad(pairs) = 2
    /\ nalloc = 0
    /\ documents = EmptyMap

\* C9 as stated: a drained external uri is retrieved exactly when its
\* fragmentless uri is no key of the document store.
C9_Original ==
    [][ \A uri \in external \ external' :
           (calls' = Append(calls, SetFragmentNone(uri))) <=>
               SetFragmentNone(uri) \notin DOMAIN documents ]_vars

\* C9, amended: a drained external uri is retrieved exactly when its
\* fragmentless uri is no key of the resource map; a uri known only as the
\* `$id` of a processed node is not retrieved.
C9_RetrievedIffUnknown ==
    [][ \A uri \in external \ external' :
           /\ (calls' = Append(calls, SetFragmentNone(uri))) <=>
                  SetFragmentNone(uri) \notin DOMAIN resources
           /\ calls' # calls => calls' = Append(calls, SetFragmentNone(uri)) ]_vars

\* A finished build in which s2 was referred to and is known only as the
\* `$id` of a processed node: no retriever call was made.
C9_Witness ==
    /\ pc = "done"
    /\ <<S1, S2>> \in seen
    /\ S2 \in DOMAIN resources
    /\ S2 \notin DOMAIN documents
    /\ calls = <<>>

\* Every resource and every anchor of the meta-schema table is in the registry.
MetaTableIn ==
    /\ \A u \in DOMAIN SPECIFICATIONS.resources :
           u \in DOMAIN resources /\ resources[u] = SPECIFICATIONS.resources[u]
    /\ \A k \in DOMAIN SPECIFICATIONS.anchors :
           k \in DOMAIN anchors /\ anchors[k] = SPECIFICATIONS.anchors[k]

\* C10 as stated: a successful build that processed a node with a
\* meta-schema-prefixed `$ref` or `$schema`, under any base, returns a registry
\* holding the meta-schema table.
C10_Original ==
    pc = "done" =>
        ((\E w \in walked : \E r \in RefsOf(Contents(w.res)) : IsMetaPrefixed(r)) =>
            MetaTableIn)

\* C10, amended: a successful build that processed a node with a
\* meta-schema-prefixed `$ref`, under a base that is no urn, returns a registry
\* holding the meta-schema table.
C10_MetaSchemasInjected ==
    pc = "done" =>
        ((\E w \in walked : /\ Scheme(w.base) # "urn"
                            /\ GetStr(Contents(w.res), "$ref").some
                            /\ IsMetaPrefixed(GetStr(Contents(w.res), "$ref").val)) =>
            MetaTableIn)

\* A finished build of the one pair whose `$ref` names a meta-schema.
C10_Witness ==
    /\ pc = "done"
    /\ used = 1
    /\ pairs[1].body = "meta"
    /\ refers_metaschemas
    /\ MetaTableIn
    /\ DOMAIN SPECIFICATIONS.resources # {}

\* C11: no reference that begins with https://json-schema.org/draft/ or
\* http://json-schema.org/draft- is recorded as seen or added to the external
\* set, under `$ref` or under `$schema`: every external URI and every
\* retriever call is the resolution of a recorded reference without such a
\* prefix.
C11_MetaRefsNotExternal ==
    /\ \A p \in seen : ~IsMetaPrefixed(p[2])
    /\ \A u \in external :
           \E p \in seen : ~IsMetaPrefixed(p[2]) /\ ResolveReference(p[1], p[2]) = Ok(u)
    /\ \A i \in DOMAIN calls :
           \E p \in seen : /\ ~IsMetaPrefixed(p[2])
                           /\ ResolveReference(p[1], p[2]).ok
                           /\ SetFragmentNone(ResolveReference(p[1], p[2]).val) = calls[i]

\* A finished build that processed a meta-schema `$ref` and a meta-schema
\* `$schema` and called no retriever.
C11_Witness ==
    /\ pc = "done"
    /\ \E w \in walked : /\ GetStr(Contents(w.res), "$ref").some
                        /\ IsMetaPrefixed(GetStr(Contents(w.res), "$ref").val)
    /\ \E w \in walked : /\ GetStr(Contents(w.res), "$schema").some
                        /\ IsMetaPrefixed(GetStr(Contents(w.res), "$schema").val)
    /\ calls = <<>>
    /\ external = {}

\* The base the node at the head of the queue is processed under: its `$id`
\* resolved against the queued base, the queued base without an `$id`.
HeadBase ==
    LET id == IdOf(Contents(Head(queue).res), Head(queue).res.draft) IN
    IF id.some /\ ResolveAgainst(Head(queue).base, id.val).ok
    THEN ResolveAgainst(Head(queue).base, id.val).val
    ELSE Head(queue).base

\* The one input pair ("urn:example:s", {"$ref": "http://ex/s2"}).
UrnOnly == <<[uri |-> UrnS, body |-> "ext", draft |-> "Draft202012"]>>

\* C12: the turn of the discovery loop that processes a node under a base of
\* scheme urn leaves the external set, the seen set and the meta-schema flag as
\* they were; and the build of the single pair
\* ("urn:example:s", {"$ref": "http://ex/s2"}) never fails, never calls the
\* retriever and has nothing to retrieve.
C12_UrnBaseCollectsNothing ==
    /\ [][(pc = "queue" /\ queue # <<>> /\ Scheme(HeadBase) = "urn") =>
             /\ external' = external
             /\ seen' = seen
             /\ refers_metaschemas' = refers_metaschemas]_vars
    /\ []((pairs = UrnOnly /\ used = 1) =>
             (pc \in {"queue", "done"} /\ calls = <<>> /\ external = {}))

\* The build of the single urn pair has finished, its node processed.
C12_Witness ==
    /\ pc = "done"
    /\ pairs = UrnOnly
    /\ used = 1
    /\ \E w \in walked : w.base = UrnS /\ RefsOf(Contents(w.res)) = {S2}
    /\ UrnS \in DOMAIN resources
    /\ S2 \notin DOMAIN resources

\* C13: of two builds of a fresh registry from the same pairs with the same
\* retriever, the second returns the resource-map key set and the anchor key
\* set the first returned, whatever order the two drained the external set in.
C13_Original ==
    (pc = "done" /\ first.some /\ used = Len(pairs)) =>
        /\ DOMAIN resources = first.val.resources
        /\ DOMAIN anchors = first.val.anchors

\* C14: when a build that set the meta-schema flag has finished, first build
\* or extension, the resource map restricted to the URIs of the meta-schema
\* table is the table's resource map: each of these URIs maps to the table's
\* own resource, none to a handle of a document the user supplied.
C14_MetaTableRestored ==
    (pc = "done" /\ refers_metaschemas) =>
        /\ DOMAIN SPECIFICATIONS.resources \subseteq DOMAIN resources
        /\ [u \in DOMAIN SPECIFICATIONS.resources |-> resources[u]] = SPECIFICATIONS.resources
        /\ \A u \in DOMAIN SPECIFICATIONS.resources : resources[u].doc \notin Range(documents)

\* An extension has finished that was given a document under a URI of the
\* table and processed a node whose `$id` is another URI of the table.
C14_Witness ==
    /\ pc = "done"
    /\ refers_metaschemas
    /\ used > Len(pairs)
    /\ Meta202012 \in DOMAIN documents
    /\ \E i \in DOMAIN pairs : pairs[i].uri = Meta202012
    /\ \E w \in walked : w.base = Meta07 /\ w.res.doc \in Range(documents)
    /\ resources[Meta202012] = SPECIFICATIONS.resources[Meta202012]
    /\ resources[Meta07] = SPECIFICATIONS.resources[Meta07]

\* The anchor Registry::anchor finds for (uri, name): under the uri, or under
\* the `$id` of the resource registered under the uri.
Under(uri, name) ==
    IF AnchorKey(uri, name) \in DOMAIN anchors THEN Some(anchors[AnchorKey(uri, name)])
    ELSE IF uri \notin DOMAIN resources THEN None
    ELSE IF ~GetStr(Contents(resources[uri]), "$id").some THEN None
    ELSE IF AnchorKey(TrimEndHash(GetStr(Contents(resources[uri]), "$id").val), name)
                \in DOMAIN anchors
         THEN Some(anchors[AnchorKey(TrimEndHash(GetStr(Contents(resources[uri]), "$id").val),
                                     name)])
    ELSE None

\* C15: asked for a name under the uri of a registered resource, find_anchor
\* returns InvalidAnchor if the name contains "/" and NoSuchAnchor otherwise
\* when no anchor of that name is registered under the uri nor under the
\* resource's `$id`; when one is registered under either, it returns that
\* anchor, also when the name contains "/".
C15_SlashCheckedLast ==
    (answer.op = "anchor" /\ answer.uri \in DOMAIN resources) =>
        IF Under(answer.uri, answer.name).some
        THEN answer.result = Ok(Under(answer.uri, answer.name).val)
        ELSE answer.result =
                 [ok |-> FALSE,
                  kind |-> IF \E i \in DOMAIN answer.name : answer.name[i] = "/"
                           THEN "InvalidAnchor" ELSE "NoSuchAnchor",
                  what |-> answer.name]

\* find_anchor was asked for "foo/bar" under the uri of a resource with an
\* `$id`, in a registry that holds an anchor whose name contains "/" under that
\* `$id`: both lookups missed.
C15_Witness ==
    /\ answer.op = "anchor"
    /\ answer.uri = Http("a")
    /\ Http("a") \in DOMAIN resources
    /\ IdOf(Contents(resources[Http("a")]), "Draft202012") = Some(S2)
    /\ AnchorKey(S2, <<"n", "/", "m">>) \in DOMAIN anchors
    /\ answer.name = <<"foo", "/", "bar">>
    /\ answer.result = Err("InvalidAnchor", <<"foo", "/", "bar">>)

\* C16: when a build has processed the root of a document loaded under L,
\* whose `$id` resolved to C and which names an anchor n, the anchor map has
\* the key (C, n), and find_anchor asked for (C, n) or for (L, n) returns an
\* anchor, whether the `$id` is absolute or relative.
C16_Original ==
    pc = "done" =>
        \A w \in walked :
            (/\ w.res.path = <<>>
             /\ GetStr(Contents(w.res), "$id").some
             /\ GetStr(Contents(w.res), "$anchor").some) =>
                \A L \in DOMAIN documents : documents[L] = w.res.doc =>
                    /\ AnchorKey(w.base, GetStr(Contents(w.res), "$anchor").val)
                           \in DOMAIN anchors
                    /\ (/\ answer.op = "anchor"
                        /\ answer.name = GetStr(Contents(w.res), "$anchor").val
                        /\ answer.uri \in {L, w.base}) => answer.result.ok

\* C17: find_anchor returns the anchor or an error of the closed set of error
\* kinds, whatever uri and name it is asked for: it never panics.
C17_Original ==
    answer.op = "anchor" =>
        \/ answer.result.ok
        \/ answer.result.kind \in ErrorKinds

\* The document a lookup asks for.
Target(a) == ResolveAgainst(a.base, SplitOnceHash(a.reference).path).val

C19_KeysNeverRemoved ==
    [][/\ DOMAIN resources \subseteq DOMAIN resources'
       /\ DOMAIN anchors \subseteq DOMAIN anchors']_vars

\* An extension has finished, having processed new documents, and an anchor
\* of a document interned by an earlier build is still in the anchor map.
C19_Witness ==
    /\ pc = "done"
    /\ used > Len(pairs)
    /\ walked # {}
    /\ \E k \in DOMAIN anchors :
          /\ anchors[k].resource.doc \in Range(documents)
          /\ k[1] \in DOMAIN resources
          /\ \A w \in walked : anchors[k].resource.doc.n < w.res.doc.n

\* C21 as stated: every key of the document store is a URI without a
\* fragment, for input documents and for retrieved ones.
C21_Original ==
    \A u \in DOMAIN documents : ~HasFragment(u)

\* C21, amended: the key of an input document is the input URI string with
\* its trailing "#"s trimmed, so it has no empty fragment but keeps a
\* non-empty one; the key of a retrieved document is the URI the retriever was
\* called with, which has no fragment.
C21_DocumentKeys ==
    /\ \A u \in DOMAIN documents :
           \/ \E i \in DOMAIN pairs : u = TrimEndHash(pairs[i].uri)
           \/ \E i \in DOMAIN calls : u = calls[i]
    /\ \A i \in DOMAIN calls : ~HasFragment(calls[i])
    /\ \A u \in DOMAIN documents : HasFragment(u) => Fragment(u) # <<>>

\* A finished build that interned the pair given as "http://ex/s1#f", one given
\* with a trailing "#", and a retrieved document whose reference had a fragment.
C21_Witness ==
    /\ pc = "done"
    /\ S1 \o <<"#", "f">> \in DOMAIN documents
    /\ \E i \in DOMAIN pairs : pairs[i].uri = S1 \o <<"#">>
    /\ S1 \in DOMAIN documents
    /\ S3 \in DOMAIN documents
    /\ <<S1 \o <<"#", "f">>, S3 \o <<"#", "/", "bar">> >> \in seen

\* C22 as stated: in a registry a build returned every handle of the resource
\* map points into a document of that registry's document store, the entries
\* merged in from the meta-schema table included.
C22_Original ==
    pc = "done" => \A u \in DOMAIN resources : resources[u].doc \in Range(documents)

\* C22, amended: in a registry a build returned every handle of the resource
\* map points to a node of a document of that registry's document store,
\* except the entries merged in from the meta-schema table, whose handles point
\* into the documents of the table's own store and into none of the registry's.
C22_HandlesPointIntoStores ==
    pc = "done" =>
        /\ \A u \in DOMAIN resources :
               /\ \/ resources[u].doc \in Range(documents)
                  \/ /\ refers_metaschemas \/ used > Len(pairs)
                     /\ u \in DOMAIN SPECIFICATIONS.resources
                     /\ resources[u] = SPECIFICATIONS.resources[u]
               /\ Walk(BodyOf(resources[u].doc.body), resources[u].path).some
        /\ \A u \in DOMAIN SPECIFICATIONS.resources :
               /\ SPECIFICATIONS.resources[u].doc \in Range(SPECIFICATIONS.documents)
               /\ SPECIFICATIONS.resources[u].doc \notin Range(documents)

\* A finished build whose resource map holds the root of an input document, an
\* `$id` alias of a nested node of an input document and an entry of the table.
C22_Witness ==
    /\ pc = "done"
    /\ refers_metaschemas
    /\ resources[Meta07] = SPECIFICATIONS.resources[Meta07]
    /\ resources[Meta07].doc \notin Range(documents)
    /\ UrnT \in DOMAIN resources
    /\ resources[UrnT].path = <<"properties", "bar">>
    /\ resources[UrnT].doc = documents[S1]
    /\ resources[S1] = Handle(documents[S1], <<>>, "Draft202012")

\* C23: every URI the retriever is called with has a scheme and no fragment,
\* and is the resolution, its fragment cleared, of a reference recorded in this
\* build, whether that reference was relative or carried a fragment.
C23_RetrieverUris ==
    \A i \in DOMAIN calls :
        /\ HasScheme(calls[i])
        /\ ~HasFragment(calls[i])
        /\ \E p \in seen :
               /\ ResolveReference(p[1], p[2]).ok
               /\ calls[i] = SetFragmentNone(ResolveReference(p[1], p[2]).val)

\* The relative reference "s3#/bar", found under a base with a fragment, led
\* to a retriever call for http://ex/s3, and no other reference to s3 was seen.
C23_Witness ==
    /\ \E i \in DOMAIN calls : calls[i] = S3
    /\ <<S2 \o <<"#", "/", "properties">>, <<"s3", "#", "/", "bar">> >> \in seen
    /\ \A p \in seen : p[2] \notin {S3, S3 \o <<"#", "/", "bar">>}
    /\ AnchorKey(S3, <<"j">>) \in DOMAIN anchors

\* The popped node has an `$id` and it resolves against the queued base.
HeadHasId ==
    /\ GetStr(Contents(Head(queue).res), "$id").some
    /\ ResolveAgainst(Head(queue).base,
                      TrimEndHash(GetStr(Contents(Head(queue).res), "$id").val)).ok

\* The anchor keys the popped node is registered under.
HeadAnchorKeys ==
    {AnchorKey(HeadBase, AnchorsOf(Head(queue).res)[i].name) :
        i \in DOMAIN AnchorsOf(Head(queue).res)}

\* C24 as stated: within the build of a fresh registry no turn of the queue
\* loop replaces the entry of a key the resource map or the anchor map has
\* already.
C24_Original ==
    [][(pc = "queue" /\ queue # <<>> /\ used = Len(pairs)) =>
          /\ \A u \in DOMAIN resources : resources'[u] = resources[u]
          /\ \A k \in DOMAIN anchors : anchors'[k] = anchors[k]]_vars

\* C24, amended: within the build of a fresh registry a turn of the queue
\* loop puts the popped node under its resolved `$id` and its anchors under
\* (base, name), whether or not the key was in the map: the later insert
\* replaces the earlier entry, last write wins; every other entry stays.
C24_LastWriteWins ==
    [][(pc = "queue" /\ queue # <<>> /\ used = Len(pairs)) =>
          /\ HeadHasId => (HeadBase \in DOMAIN resources' /\ resources'[HeadBase] = Head(queue).res)
          /\ \A u \in DOMAIN resources :
                 (HeadHasId /\ u = HeadBase) \/ resources'[u] = resources[u]
          /\ HeadHasId \/ ~GetStr(Contents(Head(queue).res), "$id").some =>
                 /\ \A k \in HeadAnchorKeys :
                        k \in DOMAIN anchors' /\ anchors'[k].resource = Head(queue).res
                 /\ \A k \in DOMAIN anchors :
                        k \in HeadAnchorKeys \/ anchors'[k] = anchors[k]]_vars

\* In the build of a fresh registry the root of the document retrieved for s3,
\* whose `$id` resolves to http://ex/s2 and whose anchor is "k", took the place
\* of the root of the document retrieved for s2, which names the anchor "k" too.
C24_Witness ==
    /\ used = Len(pairs)
    /\ S2 \in DOMAIN documents
    /\ S3 \in DOMAIN documents
    /\ [base |-> S2, res |-> Handle(documents[S2], <<>>, "Draft202012")] \in walked
    /\ resources[S2] = Handle(documents[S3], <<>>, "Draft202012")
    /\ anchors[AnchorKey(S2, <<"k">>)].resource = Handle(documents[S3], <<>>, "Draft202012")

\* C25: the turn of the queue loop that processes a node whose `$id` resolves
\* to a URI that is a key of the resource map puts the node under that URI in
\* place of the previous entry, leaves every other entry and the key set as
\* they were, and fails only if collecting the node's references fails.
C25_AliasReplaces ==
    [][(pc = "queue" /\ queue # <<>> /\ HeadHasId /\ HeadBase \in DOMAIN resources) =>
          /\ resources' = [resources EXCEPT ![HeadBase] = Head(queue).res]
          /\ pc' = "failed" <=>
                 ~CollectExternalResources(HeadBase, Contents(Head(queue).res),
                      [collected |-> external, seen |-> seen,
                       refers |-> refers_metaschemas, err |-> NoError,
                       times |-> handled]).err.ok]_vars

\* An extension has put the input document whose `$id` is http://ex/s2 under
\* that URI, which an earlier build had registered for a retrieved document.
C25_Witness ==
    /\ pc = "done"
    /\ used > Len(pairs)
    /\ S2 \in DOMAIN documents
    /\ Http("a") \in DOMAIN documents
    /\ documents[S2].n < documents[Http("a")].n
    /\ resources[S2] = Handle(documents[Http("a")], <<>>, "Draft202012")

\* The URIs the pairs of the current build were given under.
SuppliedUris == {TrimEndHash(pairs[i].uri) : i \in DOMAIN pairs}

\* The URI the recorded reference p, a pair (base, reference), resolves to.
Resolved(p) == ResolveReference(p[1], p[2])

\* Every element of the external set is the resolution of a recorded
\* reference that does not start with "#".
NoLocalExternal ==
    \A u \in external : \E p \in seen : ~StartsWith(p[2], <<"#">>) /\ Resolved(p) = Ok(u)

\* C26 as stated: references that start with "#" are never added to the
\* external set, and a build whose input URIs parse and in which every
\* recorded reference is local or resolves, with or without its fragment, to a
\* URI supplied among the inputs calls no retriever and does not fail.
C26_Original ==
    /\ NoLocalExternal
    /\ (/\ FirstBad(pairs) = 0
        /\ \A p \in seen :
               \/ StartsWith(p[2], <<"#">>)
               \/ /\ Resolved(p).ok
                  /\ \/ Resolved(p).val \in SuppliedUris
                     \/ SetFragmentNone(Resolved(p).val) \in SuppliedUris)
           => (calls = <<>> /\ pc # "failed")

\* C26, amended: as C26, for references whose document, the resolved URI
\* without its fragment, is a URI supplied among the inputs; a reference that
\* resolves to an input URI supplied with a non-empty fragment does not count.
C26_LocalRefsNotExternal ==
    /\ NoLocalExternal
    /\ (/\ FirstBad(pairs) = 0
        /\ \A p \in seen :
               \/ StartsWith(p[2], <<"#">>)
               \/ /\ Resolved(p).ok
                  /\ SetFragmentNone(Resolved(p).val) \in SuppliedUris)
           => (calls = <<>> /\ pc # "failed")

\* A finished build of two input documents: one refers to a node of its own
\* that refers to the other, the other to a node of its own; no retriever call.
C26_Witness ==
    /\ pc = "done"
    /\ seen = { <<S2, <<"#", "/", "x">> >>, <<S2, S1>>, <<S1, <<"#", "/", "$defs", "/", "x">> >> }
    /\ calls = <<>>
    /\ DOMAIN documents = {S1, S2}

\* The handles of the nodes processed so far in this build.
WalkedNodes == {w.res : w \in walked}

\* A step of a build keeps the stages of a round apart.  When the retriever
\* is called, the nodes in the queue are nodes of documents retrieved in this
\* build of which nothing was processed yet; the root of every document that
\* was not retrieved and every subresource of every processed node have been
\* processed, and the resolved `$id` of every processed node is a key of the
\* resource map.  No node is processed while the external set is drained, and
\* the drain ends with the external set empty.
RoundIsStaged ==
    /\ calls' # calls =>
           /\ \A i \in DOMAIN queue :
                  /\ \E j \in DOMAIN calls : documents[calls[j]] = queue[i].res.doc
                  /\ \A n \in WalkedNodes : n.doc # queue[i].res.doc
           /\ \A u \in DOMAIN documents :
                  (\A j \in DOMAIN calls : calls[j] # u) =>
                      Handle(documents[u], <<>>, "Draft202012") \in WalkedNodes
           /\ \A w \in walked :
                  /\ \A i \in DOMAIN Subresources(w.base, w.res) :
                         Subresources(w.base, w.res)[i].res \in WalkedNodes
                  /\ GetStr(Contents(w.res), "$id").some => w.base \in DOMAIN resources
    /\ walked' # walked => pc = "queue"
    /\ (pc = "drain" /\ pc' = "queue") => external' = {}

\* C27 as stated: every retriever call finds the queue empty, and the stages
\* of a round are kept apart.
C27_Original ==
    [][(calls' # calls => queue = <<>>) /\ RoundIsStaged]_vars

\* C27, amended: the first retriever call of a round finds the queue empty,
\* a later call of the round finds in it only the documents retrieved earlier
\* in the round; and the stages of a round are kept apart.
C27_RoundsAreStaged ==
    [][(calls' # calls /\ pc = "queue" => queue = <<>>) /\ RoundIsStaged]_vars

\* A drain in progress: one document was retrieved and waits in the queue,
\* and the external set still holds the URI of a document that is not known.
C27_Witness ==
    /\ pc = "drain"
    /\ Len(calls) = 1
    /\ queue # <<>>
    /\ \A i \in DOMAIN queue : queue[i].res.doc = documents[calls[1]]
    /\ \E u \in external : ~AlreadyKnown(u)
    /\ Cardinality(WalkedNodes) >= 2

\* The path of the node the fragment of uri points to in the document stored
\* under uri without its fragment, once the turn that drained uri is over.
PointedTo(uri) == Pointer(BodyOf(documents'[SetFragmentNone(uri)].body), Fragment(uri))

\* C28: a turn of the drain that takes a URI whose fragment is a JSON Pointer
\* that resolves inside its document leaves the pointed-to node in the queue,
\* unless the node was processed before.
C28_Original ==
    [][\A uri \in external \ external' :
          (/\ pc' # "failed"
           /\ HasFragment(uri)
           /\ SetFragmentNone(uri) \in DOMAIN documents'
           /\ PointedTo(uri).some) =>
              \/ \E i \in DOMAIN queue' :
                    /\ queue'[i].res.doc = documents'[SetFragmentNone(uri)]
                    /\ queue'[i].res.path = PointedTo(uri).val
              \/ \E n \in WalkedNodes :
                    /\ n.doc = documents'[SetFragmentNone(uri)]
                    /\ n.path = PointedTo(uri).val]_vars

\* The node the local reference r designates in the document of the node h.
Designated(h, r) == Pointer(BodyOf(h.doc.body), TrimStartHash(r))

\* C29: for every processed node, the document root or a nested subresource,
\* under a base that is no urn and not under https://json-schema.org/draft/,
\* and every local reference "#<pointer>" of it whose pointer resolves in the
\* node's document, each external `$ref` or `$schema` value of the designated
\* node has been recorded under the node's base and so resolved into the
\* external set.
C29_Original ==
    pc # "failed" =>
        \A w \in walked :
            (Scheme(w.base) # "urn" /\ ~StartsWith(w.base, HttpsDraftPrefix)) =>
                \A r \in RefsOf(Contents(w.res)) :
                    (IsLocal(r) /\ r # <<"#">> /\ Designated(w.res, r).some) =>
                        \A t \in RefsOf(Walk(BodyOf(w.res.doc.body),
                                              Designated(w.res, r).val).val) :
                            IsExternalRef(t) => <<w.base, t>> \in seen

\* C30: in one build on_reference! goes on with a (base, reference) pair at
\* most once, namely when it records the pair as seen; a pair that is recorded
\* is skipped wherever it is met again, so the recursion through local
\* references ends, also on references that lead back to one another.
C30_PairsHandledOnce ==
    /\ DOMAIN handled = seen
    /\ \A p \in DOMAIN handled : handled[p] = 1

\* The build of the document whose "#/a" leads to a node that refers to "#/b",
\* which leads to a node that refers back to "#/a", has finished, both
\* references handled.
C30_Witness ==
    /\ pc = "done"
    /\ [base |-> Http("c"), res |-> Handle(documents[Http("c")], <<>>, "Draft202012")] \in walked
    /\ GetStr(Walk(Contents(resources[Http("c")]), <<"a", "b">>).val, "$ref")
           = Some(<<"#", "/", "a">>)
    /\ <<Http("c"), <<"#", "/", "a">> >> \in seen
    /\ <<Http("c"), <<"#", "/", "b">> >> \in seen

\* C31: the turn of the discovery loop that processes a node whose base is
\* under https://json-schema.org/draft/ or under http://json-schema.org/draft-
\* adds nothing to the external set, and sets the meta-schema flag when the
\* node has a `$ref`.
C31_Original ==
    [][(/\ pc = "queue"
        /\ queue # <<>>
        /\ pc' # "failed"
        /\ \/ StartsWith(HeadBase, HttpsDraftPrefix)
           \/ StartsWith(HeadBase, HttpDraftPrefix)) =>
           /\ external' = external
           /\ GetStr(Contents(Head(queue).res), "$ref").some => refers_metaschemas']_vars

\* The path p leads to a proper ancestor of the node at path q.
Above(p, q) == Len(p) < Len(q) /\ SubSeq(q, 1, Len(p)) = p

\* The base a node with the contents `node` is processed under when it is
\* reached under `base`: its `$id` resolved against `base`, `base` without one.
Rebased(base, node) ==
    IF IdOf(node, "Draft202012").some
    THEN ResolveAgainst(base, IdOf(node, "Draft202012").val).val
    ELSE base

\* The processed nodes of the document of w that are proper ancestors of w
\* with no processed node between them and w.
NearestAbove(w) ==
    {a \in walked : /\ a.res.doc = w.res.doc
                    /\ Above(a.res.path, w.res.path)
                    /\ \A b \in walked :
                           ~(/\ b.res.doc = w.res.doc
                             /\ Above(a.res.path, b.res.path)
                             /\ Above(b.res.path, w.res.path))}

\* The processed node w was processed under the base of its nearest processed
\* ancestor, or, as a root, under the key of its document, with its own `$id`
\* resolved against that.
UnderNearestId(w) ==
    /\ \A a \in NearestAbove(w) : w.base = Rebased(a.base, Contents(w.res))
    /\ w.res.path = <<>> =>
           \A u \in DOMAIN documents :
               documents[u] = w.res.doc => w.base = Rebased(u, Contents(w.res))

\* The processed node w is the node that the fragment of a recorded reference
\* to a retrieved document points to, processed under the document's key.
FragmentRoot(w) ==
    \E p \in seen :
        /\ Resolved(p).ok
        /\ HasFragment(Resolved(p).val)
        /\ SetFragmentNone(Resolved(p).val) \in DOMAIN documents
        /\ documents[SetFragmentNone(Resolved(p).val)] = w.res.doc
        /\ Pointer(BodyOf(w.res.doc.body), Fragment(Resolved(p).val)) = Some(w.res.path)
        /\ w.base = SetFragmentNone(Resolved(p).val)

\* A turn of the queue loop that does not fail processes the popped node
\* under base', its `$id` resolved against the queued base or the queued base
\* itself: the node is registered under base' when it has an `$id`, its
\* anchors are keyed by base', the references it records are recorded under
\* base' and resolved against it, and its subresources are enqueued with base'.
TurnUsesNewBase ==
    (pc = "queue" /\ queue # <<>> /\ pc' # "failed") =>
        /\ walked' = walked \cup {[base |-> Rebased(Head(queue).base, Contents(Head(queue).res)),
                                   res |-> Head(queue).res]}
        /\ HeadHasId => (HeadBase \in DOMAIN resources' /\ resources'[HeadBase] = Head(queue).res)
        /\ \A i \in DOMAIN AnchorsOf(Head(queue).res) :
               /\ AnchorKey(HeadBase, AnchorsOf(Head(queue).res)[i].name) \in DOMAIN anchors'
               /\ anchors'[AnchorKey(HeadBase, AnchorsOf(Head(queue).res)[i].name)].resource
                      = Head(queue).res
        /\ \A k \in DOMAIN anchors' \ DOMAIN anchors : k[1] = HeadBase
        /\ \A p \in seen' \ seen : p[1] = HeadBase
        /\ \A u \in external' \ external :
               \E p \in seen' \ seen : ResolveReference(HeadBase, p[2]) = Ok(u)
        /\ Len(queue') = Len(queue) - 1
                           + Len(SubresourcesOf(Contents(Head(queue).res), Head(queue).res.draft))
        /\ \A i \in Len(queue)..Len(queue') :
               /\ queue'[i].base = HeadBase
               /\ queue'[i].res.doc = Head(queue).res.doc
               /\ Above(Head(queue).res.path, queue'[i].res.path)

Reattached(B, r) ==
    IF SplitOnceHash(r).found
    THEN WithFragment(ResolveAgainst(SetFragmentNone(B), SplitOnceHash(r).path).val,
                      IF IsEncoded(SplitOnceHash(r).fragment) THEN SplitOnceHash(r).fragment
                      ELSE EncodeTo(SplitOnceHash(r).fragment))
    ELSE ResolveAgainst(SetFragmentNone(B), r).val

\* C33: every reference to another document recorded under a base B, whose
\* text before the "#" resolves against B without its fragment, is resolved
\* to that URI with its fragment re-attached, percent-encoded when needed,
\* whether or not B has a fragment; the reference
\* "folderB/sub.json#/definitions/name" under file:///a/b/schema.json gives
\* the document file:///a/b/folderB/sub.json.
C33_Original ==
    /\ \A p \in seen :
           (/\ ~IsLocal(p[2])
            /\ ResolveAgainst(SetFragmentNone(p[1]), SplitOnceHash(p[2]).path).ok) =>
               Resolved(p) = Ok(Reattached(p[1], p[2]))
    /\ \A p \in seen :
           (SetFragmentNone(p[1]) = FileSchema /\ p[2] = GetStr(BodyOf("s6"), "$ref").val) =>
               Resolved(p).ok /\ SetFragmentNone(Resolved(p).val) = FileSub

\* The state collect_external_resources is called with in the next turn of
\* the queue loop.
Before ==
    [collected |-> external, seen |-> seen, refers |-> refers_metaschemas, err |-> NoError,
     times |-> handled]

\* C34: for the object, the base and the state of every turn of the queue
\* loop, visiting every member of the object and looking up `$ref` and then
\* `$schema` give the same external set, seen set, meta-schema flag and
\* result, and the turn ends with these, whichever of the two the number of
\* members selects.
C34_PathsAgree ==
    [][(/\ pc = "queue"
        /\ queue # <<>>
        /\ Rebase(Head(queue).base, IdOf(Contents(Head(queue).res), "Draft202012")).ok
        /\ Scheme(HeadBase) # "urn"
        /\ IsObject(Contents(Head(queue).res))) =>
           /\ ByIteration(HeadBase, Contents(Head(queue).res), Before)
                  = ByLookup(HeadBase, Contents(Head(queue).res), Before)
           /\ external' = ByLookup(HeadBase, Contents(Head(queue).res), Before).collected
           /\ seen' = ByIteration(HeadBase, Contents(Head(queue).res), Before).seen
           /\ refers_metaschemas' = ByLookup(HeadBase, Contents(Head(queue).res), Before).refers
           /\ (pc' = "failed") = ~ByIteration(HeadBase, Contents(Head(queue).res), Before).err.ok
           /\ pc' = "failed" =>
                  error' = ByLookup(HeadBase, Contents(Head(queue).res), Before).err]_vars

\* A build that processed an object of two members, a `$ref` that was
\* collected and a `$schema`, and failed on the `$schema` of an object of three
\* members after its `$ref` was recorded.
C34_Witness ==
    /\ pc = "failed"
    /\ error = Err("InvalidUri", <<"$", "#", "#">>)
    /\ \E w \in walked : w.res.doc.body = "both" /\ Cardinality(DOMAIN Contents(w.res).m) = 2
    /\ \E w \in walked : w.res.doc.body = "three" /\ Cardinality(DOMAIN Contents(w.res).m) = 3
    /\ <<FileSchema, <<"folderB", "/", "sub.json">> >> \in seen
    /\ <<FileSub, <<"sub.json">> >> \in seen
    /\ <<FileSub, <<"$", "#", "#">> >> \in seen

\* C35: no build panics: a build that fails returns one of the errors of the
\* closed set.  A reference whose fragment is not validly percent-encoded,
\* recorded under a base with a fragment, is resolved to a URI whose fragment
\* is the encoded text, so every fragment in the external set is encoded.
C35_NeverPanics ==
    /\ pc = "failed" => (~error.ok /\ error.kind \in ErrorKinds)
    /\ pc # "failed" => error.ok
    /\ \A u \in external : IsEncoded(Fragment(u))
    /\ \A p \in seen :
           (/\ HasFragment(p[1])
            /\ ~IsLocal(p[2])
            /\ ResolveAgainst(SetFragmentNone(p[1]), SplitOnceHash(p[2]).path).ok
            /\ ~IsEncoded(SplitOnceHash(p[2]).fragment)) =>
               /\ Resolved(p).ok
               /\ Fragment(Resolved(p).val) = EncodeTo(SplitOnceHash(p[2]).fragment)
               /\ Fragment(Resolved(p).val) # SplitOnceHash(p[2]).fragment

\* The build of tests::test_invalid_reference, input URI "http://#/" and
\* `$schema` "$##": the reference was resolved to http:///$#%23, and the build
\* returned the error of the retriever for http:///$.
C35_Witness ==
    /\ pc = "failed"
    /\ pairs = <<[uri |-> FuzzUri, body |-> "fuzz", draft |-> "Draft202012"]>>
    /\ seen = {<<FuzzUri, <<"$", "#", "#">> >>}
    /\ Resolved(<<FuzzUri, <<"$", "#", "#">> >>) = Ok(<<"http", ":", "//", "/", "$", "#", "%23">>)
    /\ calls = << <<"http", ":", "//", "/", "$">> >>
    /\ error.kind = "Unretrievable"

\* The document the retriever returned in the step that called it.
Fetched == BodyOf(Retrieve(retriever, calls'[Len(calls')]).val)

\* The drafts the `$schema` values of the model name.
KnownDrafts == (Meta202012 :> "Draft202012") @@ (Meta07 :> "Draft7")

\* C36: the turn that retrieves a document interns it, in the document store
\* and as a resource under the retrieved URI, with the draft its `$schema`
\* names, or with the default draft of the build when it has no `$schema`;
\* when its `$schema` names no known draft the build fails with
\* UnknownSpecification and nothing is interned.
C36_RetrievedDraft ==
    [][(Len(calls') > Len(calls) /\ Retrieve(retriever, calls'[Len(calls')]).ok) =>
          IF ~GetStr(Fetched, "$schema").some
          THEN /\ calls'[Len(calls')] \in DOMAIN resources'
               /\ resources'[calls'[Len(calls')]]
                     = Handle(documents'[calls'[Len(calls')]], <<>>, default_draft)
               /\ documents'[calls'[Len(calls')]].body = Retrieve(retriever, calls'[Len(calls')]).val
          ELSE IF TrimEndHash(GetStr(Fetched, "$schema").val) \in DOMAIN KnownDrafts
          THEN /\ calls'[Len(calls')] \in DOMAIN resources'
               /\ resources'[calls'[Len(calls')]]
                     = Handle(documents'[calls'[Len(calls')]], <<>>,
                              KnownDrafts[TrimEndHash(GetStr(Fetched, "$schema").val)])
               /\ documents'[calls'[Len(calls')]].body = Retrieve(retriever, calls'[Len(calls')]).val
          ELSE /\ pc' = "failed"
               /\ error' = Err("UnknownSpecification", GetStr(Fetched, "$schema").val)
               /\ documents' = documents
               /\ resources' = resources
               /\ queue' = queue]_vars

\* A build whose default draft is 2020-12 retrieved http://ex/d7, which names
\* draft 7, and interned it under Draft7, then retrieved http://ex/u, whose
\* `$schema` names no draft, and failed with UnknownSpecification.
C36_Witness ==
    /\ pc = "failed"
    /\ default_draft = "Draft202012"
    /\ error = Err("UnknownSpecification", Http("unknown"))
    /\ calls = <<Http("d7"), Http("u")>>
    /\ resources[Http("d7")] = Handle(documents[Http("d7")], <<>>, "Draft7")
    /\ Http("u") \notin DOMAIN documents

\* The turn of the drain took from the external set a URI with a fragment
\* that is no JSON Pointer to a node of the document just retrieved for it.
DrainedUnresolved(uri) ==
    /\ Len(calls') > Len(calls)
    /\ HasFragment(uri)
    /\ SetFragmentNone(uri) = calls'[Len(calls')]
    /\ Retrieve(retriever, calls'[Len(calls')]).ok
    /\ Detect(default_draft, Fetched).ok
    /\ ~Pointer(Fetched, Fragment(uri)).some

\* C37: when the fragment of a drained URI does not resolve as a JSON Pointer
\* in the document retrieved for it, the turn does not fail: the document is
\* interned, registered under the retrieved URI and its root alone is added to
\* the queue; and the root of every retrieved document of a finished build
\* was processed.
C37_UnresolvedFragment ==
    /\ [][\A uri \in external \ external' :
             DrainedUnresolved(uri) =>
                /\ pc' # "failed"
                /\ error' = error
                /\ documents'[SetFragmentNone(uri)].body = Retrieve(retriever, SetFragmentNone(uri)).val
                /\ resources'[SetFragmentNone(uri)].doc = documents'[SetFragmentNone(uri)]
                /\ resources'[SetFragmentNone(uri)].path = <<>>
                /\ queue' = Append(queue, [base |-> SetFragmentNone(uri),
                                           res |-> resources'[SetFragmentNone(uri)]])]_vars
    /\ [](pc = "done" =>
             \A i \in DOMAIN calls :
                 \E w \in walked : w.res.doc = documents[calls[i]] /\ w.res.path = <<>>)

\* A finished build of the document whose references carry a pointer to a
\* missing member, a pointer into a string and a fragment without "/": the
\* three documents were retrieved and processed from their roots, each node
\* of theirs once, under the draft of its document.
C37_Witness ==
    /\ pc = "done"
    /\ pairs = <<[uri |-> Http("r3"), body |-> "misses", draft |-> "Draft202012"]>>
    /\ default_draft = "Draft202012"
    /\ {calls[i] : i \in DOMAIN calls} = {Http("m1"), Http("m2"), Http("m3")}
    /\ \A u \in {Http("m1"), Http("m2"), Http("m3")} :
           {w.res : w \in {x \in walked : x.res.doc = documents[u]}}
              = {Handle(documents[u], <<>>, "Draft7"),
                 Handle(documents[u], <<"definitions", "name">>, "Draft7")}

\* The turn of the drain took from the external set a URI whose fragment is a
\* JSON Pointer to a node of the document just retrieved for it.
DrainedResolved(uri) ==
    /\ Len(calls') > Len(calls)
    /\ HasFragment(uri)
    /\ SetFragmentNone(uri) = calls'[Len(calls')]
    /\ Retrieve(retriever, calls'[Len(calls')]).ok
    /\ Detect(default_draft, Fetched).ok
    /\ Pointer(Fetched, Fragment(uri)).some

\* The node of the document just retrieved that the fragment of uri points to.
PointedNode(uri) == Walk(Fetched, Pointer(Fetched, Fragment(uri)).val).val

\* C38: the turn of the drain that retrieves a document for a URI whose
\* fragment points to a node of it enqueues that node, before the root, with
\* the draft detected from the node with the default draft of the build as
\* fallback, and the root with the draft detected for the document; a node
\* without a `$schema` gets the default draft, whatever the document declares.
C38_PointedNodeDraft ==
    [][\A uri \in external \ external' :
          (DrainedResolved(uri) /\ Detect(default_draft, PointedNode(uri)).ok) =>
              /\ Len(queue') = Len(queue) + 2
              /\ queue'[Len(queue) + 1]
                    = [base |-> SetFragmentNone(uri),
                       res  |-> Handle(documents'[SetFragmentNone(uri)],
                                       Pointer(Fetched, Fragment(uri)).val,
                                       Detect(default_draft, PointedNode(uri)).val)]
              /\ queue'[Len(queue) + 2]
                    = [base |-> SetFragmentNone(uri),
                       res  |-> Handle(documents'[SetFragmentNone(uri)], <<>>,
                                       Detect(default_draft, Fetched).val)]
              /\ ~GetStr(PointedNode(uri), "$schema").some =>
                     queue'[Len(queue) + 1].res.draft = default_draft]_vars

\* A build whose default draft is 2020-12 retrieved http://ex/d7, which
\* declares draft 7, for the reference "d7#/definitions/name": the node
\* /definitions/name, which declares no `$schema`, was processed under draft
\* 2020-12 as the target of the fragment and under draft 7 as a subresource
\* of the root.
C38_Witness ==
    /\ pc = "done"
    /\ default_draft = "Draft202012"
    /\ calls = <<Http("d7")>>
    /\ [base |-> Http("d7"), res |-> Handle(documents[Http("d7")], <<>>, "Draft7")] \in walked
    /\ [base |-> Http("d7"),
        res |-> Handle(documents[Http("d7")], <<"definitions", "name">>, "Draft202012")] \in walked
    /\ [base |-> Http("d7"),
        res |-> Handle(documents[Http("d7")], <<"definitions", "name">>, "Draft7")] \in walked

\* A run of the command-line tool that called validate_instances and is over.
Validated ==
    /\ cli.at = "exited"
    /\ ~cli.config.val.version
    /\ Validates(cli.config.val)

\* The instances of the command line that could not be read or parsed.
Broken == {i \in DOMAIN Instances(cli.config.val) :
              read_json(Instances(cli.config.val)[i]) # "ok"}

\* The instances of the command line that the schema rejects.
Rejected == {i \in DOMAIN Instances(cli.config.val) :
                Instances(cli.config.val)[i] = "invalid"}

\* The instances in front of the first one that could not be read or parsed.
UpToBroken == {i \in DOMAIN Instances(cli.config.val) : \A j \in Broken : i < j}

\* The exit code is a failure when the schema is invalid, an instance is
\* invalid and was reached, or a file could not be read or parsed.
FailureCases ==
    (\/ cli.config.val.schema.val # "valid"
     \/ Rejected \cap UpToBroken # {}
     \/ Broken # {})
        => cli.exit = "FAILURE"

\* C39 as stated: when a run of the tool with a schema and instances is
\* over, every given instance was validated whenever the schema was built,
\* the exit code is success exactly when the schema builds and no instance
\* fails validation, and an invalid schema, an invalid instance or an
\* unreadable or unparsable file gives a failure exit code.
C39_Original ==
    Validated =>
        /\ cli.built => cli.validated = [i \in DOMAIN Instances(cli.config.val) |-> i]
        /\ cli.exit = "SUCCESS" <=>
              (cli.config.val.schema.val = "valid" /\ Rejected = {})
        /\ FailureCases

\* C39, amended: when a run of the tool with a schema and instances is over
\* and the schema was built, the instances validated are, in order, the ones
\* in front of the first instance that could not be read or parsed, an
\* earlier invalid instance notwithstanding; the exit code is success exactly
\* when the schema builds and every instance is read, parsed and passes; and
\* an invalid schema, an invalid instance or an unreadable or unparsable
\* file gives a failure exit code.
C39_ValidatesUpToBroken ==
    Validated =>
        /\ cli.built => cli.validated = [i \in UpToBroken |-> i]
        /\ cli.exit = "SUCCESS" <=>
              (cli.config.val.schema.val = "valid" /\ Rejected = {} /\ Broken = {})
        /\ FailureCases

\* A run is over in which the first instance was found invalid and the
\* second was validated all the same.
C39_Witness ==
    /\ Validated
    /\ Instances(cli.config.val) = <<"invalid", "valid">>
    /\ cli.validated = <<1, 2>>
    /\ cli.exit = "FAILURE"

\* C40: a run given a schema path and no --instance ends in success with
\* nothing read, built or printed; a run given --version has printed the
\* version and ended in success with nothing read, built or validated.
C40_NothingExamined ==
    /\ (/\ cli.at = "exited"
        /\ ~cli.config.val.version
        /\ cli.config.val.schema.some
        /\ ~cli.config.val.instances.some)
           => /\ cli.exit = "SUCCESS"
              /\ cli.read = <<>>
              /\ ~cli.built
              /\ cli.out = <<>>
    /\ (cli.config.some /\ cli.config.val.version)
           => /\ cli.at = "exited"
              /\ cli.exit = "SUCCESS"
              /\ cli.out = <<Line("Version", 0)>>
              /\ cli.read = <<>>
              /\ ~cli.built
              /\ cli.validated = <<>>

\* A run given only the path of a schema file that cannot be read has ended
\* in success.
C40_Witness ==
    /\ cli.at = "exited"
    /\ cli.config.val = [version |-> FALSE, schema |-> Some("unreadable"), instances |-> None]
    /\ cli.exit = "SUCCESS"
    /\ cli.read = <<>>



====
